---- MODULE Spec2Model ----
(***************************************************************************)
(* A model of the Ledger SDK protocol engine: the chunked send primitive   *)
(* (ledger-device-base), the USB-HID packet framer (ledger-transport-hid)  *)
(* and the status mapping of the Ethereum application's command families.  *)
(***************************************************************************)
EXTENDS Integers, Sequences, FiniteSets, TLC

(***************************************************************************)
(* Bounds of the model.                                                    *)
(***************************************************************************)
\* message lengths 0..MaxShortLen are all tried, besides the lengths around
\* a chunk boundary
MaxShortLen == 2
\* byte patterns the payloads are filled with: seeds 0..MaxSeed
MaxSeed == 1
\* message lengths one less than, equal to and one more than k chunks are tried
\* for k in 1..MaxBoundaryChunks
MaxBoundaryChunks == 2
\* the callers that share one TransportNativeHID: 1..NumCallers
NumCallers == 2
\* the structs of several fields have up to MaxFields fields
MaxFields == 2

(***************************************************************************)
(* Helpers.                                                                *)
(***************************************************************************)
Min(a, b) == IF a < b THEN a ELSE b

CeilDiv(a, b) == (a + b - 1) \div b

\* a byte string of the given length; consecutive bytes differ and the
\* pattern's period (256) is no multiple of a chunk or packet size
BytePattern(len, seed) == SubSeq([i \in 1..len |-> (seed + 7 * i) % 256], 1, len)

\* concatenation of the byte strings f(lo), ..., f(hi) of a sequence of byte strings
RECURSIVE FlattenRange(_, _, _)
FlattenRange(f, lo, hi) ==
    IF lo > hi THEN <<>>
    ELSE IF lo = hi THEN f[lo]
    ELSE LET mid == (lo + hi) \div 2
         IN  FlattenRange(f, lo, mid) \o FlattenRange(f, mid + 1, hi)

Flatten(f) == FlattenRange(f, 1, Len(f))

(***************************************************************************)
(* Status words.                                                           *)
(***************************************************************************)
SW_NO_ERROR == 36864          \* 0x9000
SW_USER_REJECTED == 27010     \* 0x6982
SW_INVALID_DATA == 27264      \* 0x6A80

\* the status words APDUErrorCode names besides NoError (ledger_apdu)
APDUErrorCodes == {27010, 27011, 27012, 27264, 27392, 27904}

\* APDUAnswer::error_code: Ok(code) for a status word APDUErrorCode names,
\* Err(retcode) for any other
error_code(response) ==
    IF response.sw = SW_NO_ERROR THEN [ok |-> TRUE, code |-> "NoError", sw |-> response.sw]
    ELSE IF response.sw \in APDUErrorCodes
         THEN [ok |-> TRUE, code |-> "Error", sw |-> response.sw]
         ELSE [ok |-> FALSE, code |-> "None", sw |-> response.sw]

\* what a device can answer to one exchange: an APDU answer, or the transport fails
\* 4660 = 0x1234 stands for the status words no table lists
StatusWords == {SW_NO_ERROR, SW_USER_REJECTED, SW_INVALID_DATA, 4660}
AnswerData == {<<>>, <<171>>}
Answers ==
    [kind : {"answer"}, sw : {SW_NO_ERROR}, data : AnswerData] \cup
    [kind : {"answer"}, sw : StatusWords \ {SW_NO_ERROR}, data : {<<>>}]
TransportFailure == [kind |-> "transport_error", sw |-> 0, data |-> <<>>]
Outcomes == Answers \cup {TransportFailure}

\* what the log of answers keeps of an outcome
OutcomeTag(r) == IF r.kind = "answer" THEN r.sw ELSE -1

(***************************************************************************)
(* AppExt::handle_response_error                                           *)
(***************************************************************************)
LedgerOk == [ok |-> TRUE, err |-> "None", sw |-> 0]
LedgerErr(e, sw) == [ok |-> FALSE, err |-> e, sw |-> sw]

handle_response_error_accepts_all(response) == LedgerOk

handle_response_error(response) ==
    LET c == error_code(response)
    IN  IF c.ok /\ c.code = "NoError" THEN LedgerOk
        ELSE IF c.ok THEN LedgerErr("AppSpecific", c.sw)
        ELSE LedgerErr("Unknown", c.sw)

(***************************************************************************)
(* AppExt::send_chunks                                                     *)
(***************************************************************************)
USER_MESSAGE_CHUNK_SIZE == 250
MAX_CHUNKS == 255
ChunkInit == 0
ChunkAdd == 1
ChunkLast == 2

\* message.chunks(USER_MESSAGE_CHUNK_SIZE).len()
NumChunks(message) == CeilDiv(Len(message), USER_MESSAGE_CHUNK_SIZE)

\* the chunk of index packet_idx (from 0) of message.chunks(USER_MESSAGE_CHUNK_SIZE)
ChunkAt_overlapping(message, packet_idx) ==
    SubSeq(message, packet_idx * (USER_MESSAGE_CHUNK_SIZE - 1) + 1,
           Min(packet_idx * (USER_MESSAGE_CHUNK_SIZE - 1) + USER_MESSAGE_CHUNK_SIZE,
               Len(message)))

ChunkAt(message, packet_idx) ==
    SubSeq(message, packet_idx * USER_MESSAGE_CHUNK_SIZE + 1,
           Min((packet_idx + 1) * USER_MESSAGE_CHUNK_SIZE, Len(message)))

\* p1 of the frame of index packet_idx
ChunkP1_always_add(packet_idx, last_chunk_index) == ChunkAdd

ChunkP1(packet_idx, last_chunk_index) ==
    IF packet_idx = last_chunk_index THEN ChunkLast ELSE ChunkAdd

\* the checks made before any exchange
SendChunksCheck_no_checks(command, message) == "ok"

SendChunksCheck(command, message) ==
    IF NumChunks(message) = 0 THEN "InvalidEmptyMessage"
    ELSE IF NumChunks(message) > MAX_CHUNKS THEN "InvalidMessageSize"
    ELSE IF command.p1 # ChunkInit THEN "InvalidChunkPayloadType"
    ELSE "ok"

ChunkCommand(command, message, packet_idx) ==
    [cla  |-> command.cla,
     ins  |-> command.ins,
     p1   |-> ChunkP1(packet_idx, NumChunks(message) - 1),
     p2   |-> command.p2,
     data |-> ChunkAt(message, packet_idx)]

VARIABLES
    sc_pc,          \* where send_chunks is: "start", "init", "chunk", "done"
    sc_command,     \* the template command
    sc_message,     \* the message to send
    sc_packet_idx,  \* index of the chunk whose exchange is awaited
    sc_wire,        \* the commands handed to transport.exchange, in order
    sc_answers,     \* the outcome of every exchange that returned, in order
    sc_response,    \* the local `response`
    sc_result       \* what send_chunks returned

sc_vars == <<sc_pc, sc_command, sc_message, sc_packet_idx, sc_wire, sc_answers,
             sc_response, sc_result>>

VARIABLES
    h_pc,               \* where the framer is: "idle", "write", "read", "done"
    h_channel,          \* the channel argument of write_apdu and read_apdu
    h_command,          \* write_apdu: apdu_command
    h_idx,              \* write_apdu: index of the next chunk of in_data
    h_wbuffer,          \* write_apdu: buffer
    h_written,          \* every buffer handed to device.write, in order
    h_wsizes,           \* what every device.write reported, in order
    h_wresult,          \* what write_apdu returned
    h_rbuffer,          \* read_apdu: buffer
    h_sequence_idx,     \* read_apdu: sequence_idx
    h_expected_apdu_len,\* read_apdu: expected_apdu_len
    h_answer,           \* read_apdu: apdu_answer
    h_reads,            \* what every device.read_timeout delivered, in order
    h_rresult           \* what read_apdu returned

h_vars == <<h_pc, h_channel, h_command, h_idx, h_wbuffer, h_written, h_wsizes, h_wresult,
            h_rbuffer, h_sequence_idx, h_expected_apdu_len, h_answer, h_reads,
            h_rresult>>

VARIABLES
    x_pc,       \* per caller, where its exchange is: "call", "write", "read", "ret", "done"
    x_owner,    \* the caller holding the mutex of the device, 0 when it is free
    x_ctx,      \* per caller, the locals of its exchange
    x_log       \* every device.write and device.read_timeout, in order

x_vars == <<x_pc, x_owner, x_ctx, x_log>>

VARIABLES
    st_pc,       \* "ready" to make an exchange, or "returned" with an error
    st_site,     \* the exchange made last
    st_outcome,  \* what the transport returned for it
    st_result    \* what the command made of it

st_vars == <<st_pc, st_site, st_outcome, st_result>>

VARIABLES
    e_pc,       \* "idle", "run" while the call is in progress, "done" once it returned
    e_call,     \* the function called and its arguments
    e_idx,      \* the step of the call that comes next
    e_wire,     \* the commands handed to transport.exchange, in order
    e_answers,  \* what each exchange returned: the status word, or -1
    e_response, \* what the last exchange returned
    e_result    \* what the call returned

e_vars == <<e_pc, e_call, e_idx, e_wire, e_answers, e_response, e_result>>

vars == <<sc_vars, h_vars, x_vars, st_vars, e_vars>>

\* what an action of send_chunks leaves alone
sc_Others == <<h_vars, x_vars, st_vars, e_vars>>

\* what an action of the packet framer leaves alone
h_Others == <<sc_vars, x_vars, st_vars, e_vars>>

\* what an action of a concurrent exchange leaves alone
x_Others == <<sc_vars, h_vars, st_vars, e_vars>>

\* what an exchange of a command family leaves alone
st_Others == <<sc_vars, h_vars, x_vars, e_vars>>

\* what a step of an EIP-712 call leaves alone
e_Others == <<sc_vars, h_vars, x_vars, st_vars>>

NoCall == [fn |-> "none"]

e_Idle ==
    /\ e_pc = "idle"
    /\ e_call = NoCall
    /\ e_idx = 0
    /\ e_wire = <<>>
    /\ e_answers = <<>>
    /\ e_response = [kind |-> "none", sw |-> 0, data |-> <<>>]
    /\ e_result = [kind |-> "pending", inner |-> "None", sw |-> 0]

Callers == 1..NumCallers

NoContext == [apdu |-> <<>>, idx |-> 0, sequence_idx |-> 0, expected_apdu_len |-> 0,
              answer_len |-> 0, result |-> "pending", flow |-> <<>>]

x_Idle ==
    /\ x_pc = [c \in Callers |-> "idle"]
    /\ x_owner = 0
    /\ x_ctx = [c \in Callers |-> NoContext]
    /\ x_log = <<>>

NoSite == [family |-> "none", site |-> "none", check |-> "none", mapper |-> "none"]
NoEthResult == [kind |-> "pending", inner |-> "None", sw |-> 0]

st_Idle ==
    /\ st_pc = "idle"
    /\ st_site = NoSite
    /\ st_outcome = [kind |-> "none", sw |-> 0, data |-> <<>>]
    /\ st_result = NoEthResult

NoReadResult == [status |-> "pending", err |-> "None", n |-> 0]

h_Idle ==
    /\ h_pc = "idle"
    /\ h_channel = 0
    /\ h_command = <<>>
    /\ h_idx = 0
    /\ h_wbuffer = <<>>
    /\ h_written = <<>>
    /\ h_wsizes = <<>>
    /\ h_wresult = "pending"
    /\ h_rbuffer = <<>>
    /\ h_sequence_idx = 0
    /\ h_expected_apdu_len = 0
    /\ h_answer = <<>>
    /\ h_reads = <<>>
    /\ h_rresult = NoReadResult

NoResponse == [kind |-> "none", sw |-> 0, data |-> <<>>]
NoResult == [ok |-> FALSE, err |-> "pending", sw |-> 0, response |-> NoResponse]
ResultOk(r) == [ok |-> TRUE, err |-> "None", sw |-> 0, response |-> r]
ResultErr(e, sw) == [ok |-> FALSE, err |-> e, sw |-> sw, response |-> NoResponse]

\* the inputs tried: every template with the short messages and those around
\* MaxBoundaryChunks chunk boundaries; one template of each p1 with the longest
\* message accepted and the shortest one rejected
MessageLens ==
    (0..MaxShortLen) \cup
    {k * USER_MESSAGE_CHUNK_SIZE + d : k \in 1..MaxBoundaryChunks, d \in {-1, 0, 1}}

LongMessageLens ==
    {MAX_CHUNKS * USER_MESSAGE_CHUNK_SIZE, MAX_CHUNKS * USER_MESSAGE_CHUNK_SIZE + 1}

TemplateCommands ==
    [cla : {224}, ins : {8}, p1 : {ChunkInit, ChunkAdd, ChunkLast}, p2 : {0, 1},
     data : {<<>>, <<1, 128, 0, 0, 44>>}]

LongTemplateCommands ==
    [cla : {224}, ins : {4}, p1 : {ChunkInit, ChunkAdd}, p2 : {0},
     data : {<<1, 128, 0, 0, 44>>}]

SendChunksInputs ==
    {<<c, BytePattern(len, seed)>> :
        c \in TemplateCommands, len \in MessageLens, seed \in 0..MaxSeed} \cup
    {<<c, BytePattern(len, 0)>> : c \in LongTemplateCommands, len \in LongMessageLens}

sc_Idle ==
    /\ sc_pc = "idle"
    /\ sc_command = [cla |-> 0, ins |-> 0, p1 |-> 0, p2 |-> 0, data |-> <<>>]
    /\ sc_message = <<>>
    /\ sc_packet_idx = 0
    /\ sc_wire = <<>>
    /\ sc_answers = <<>>
    /\ sc_response = NoResponse
    /\ sc_result = NoResult

sc_Init ==
    /\ sc_pc = "start"
    /\ \E input \in SendChunksInputs :
        /\ sc_command = input[1]
        /\ sc_message = input[2]
    /\ sc_packet_idx = 0
    /\ sc_wire = <<>>
    /\ sc_answers = <<>>
    /\ sc_response = NoResponse
    /\ sc_result = NoResult

\* send_chunks up to its first exchange: the checks, then the template command
\* itself is handed to the transport
SendChunksCall ==
    /\ sc_pc = "start"
    /\ LET check == SendChunksCheck(sc_command, sc_message)
       IN  IF check # "ok"
           THEN /\ sc_pc' = "done"
                /\ sc_result' = ResultErr(check, 0)
                /\ UNCHANGED sc_wire
           ELSE /\ sc_pc' = "init"
                /\ sc_wire' = Append(sc_wire, sc_command)
                /\ UNCHANGED sc_result
    /\ UNCHANGED <<sc_command, sc_message, sc_packet_idx, sc_answers, sc_response>>
    /\ UNCHANGED sc_Others

\* an exchange fails: `?` returns the transport's error, or that of
\* handle_response_error
ExchangeFailed(r) ==
    \/ r.kind = "transport_error"
    \/ ~handle_response_error(r).ok

ExchangeError(r) ==
    IF r.kind = "transport_error" THEN ResultErr("TransportError", 0)
    ELSE LET e == handle_response_error(r) IN ResultErr(e.err, e.sw)

\* the exchange of the template command returns; on success the first chunk is sent
InitExchangeReturns ==
    /\ sc_pc = "init"
    /\ \E r \in Outcomes :
        /\ sc_answers' = Append(sc_answers, OutcomeTag(r))
        /\ IF ExchangeFailed(r)
           THEN /\ sc_pc' = "done"
                /\ sc_result' = ExchangeError(r)
                /\ UNCHANGED <<sc_wire, sc_response, sc_packet_idx>>
           ELSE /\ sc_pc' = "chunk"
                /\ sc_response' = r
                /\ sc_packet_idx' = 0
                /\ sc_wire' = Append(sc_wire, ChunkCommand(sc_command, sc_message, 0))
                /\ UNCHANGED sc_result
    /\ UNCHANGED <<sc_command, sc_message>>
    /\ UNCHANGED sc_Others

\* the exchange of a chunk returns; on success the next chunk is sent, or the
\* response of the last one is returned
ChunkExchangeReturns ==
    /\ sc_pc = "chunk"
    /\ \E r \in Outcomes :
        /\ sc_answers' = Append(sc_answers, OutcomeTag(r))
        /\ IF ExchangeFailed(r)
           THEN /\ sc_pc' = "done"
                /\ sc_result' = ExchangeError(r)
                /\ UNCHANGED <<sc_wire, sc_response, sc_packet_idx>>
           ELSE IF sc_packet_idx + 1 < NumChunks(sc_message)
           THEN /\ sc_pc' = "chunk"
                /\ sc_response' = r
                /\ sc_packet_idx' = sc_packet_idx + 1
                /\ sc_wire' = Append(sc_wire,
                                 ChunkCommand(sc_command, sc_message, sc_packet_idx + 1))
                /\ UNCHANGED sc_result
           ELSE /\ sc_pc' = "done"
                /\ sc_response' = r
                /\ sc_result' = ResultOk(r)
                /\ UNCHANGED <<sc_wire, sc_packet_idx>>
    /\ UNCHANGED <<sc_command, sc_message>>
    /\ UNCHANGED sc_Others

sc_Next ==
    \/ SendChunksCall
    \/ InitExchangeReturns
    \/ ChunkExchangeReturns

InitChunks == sc_Init /\ h_Idle /\ x_Idle /\ st_Idle /\ e_Idle

SpecChunks == InitChunks /\ [][sc_Next]_vars

\* the frames that carry the message: every exchange after the template's
PayloadFrames == [i \in 1..(Len(sc_wire) - 1) |-> sc_wire[i + 1].data]

\* C1: a successful send_chunks of a message P, 0 < len(P) <= 255*250, sent P in
\* exactly ceil(len(P)/250) payload frames of at most 250 bytes each, and the
\* frame bodies concatenated in send order are P
C1_FramesReconstructPayload ==
    /\ Len(sc_wire) - 1 <= (Len(sc_message) + 249) \div 250
    /\ \A i \in 2..Len(sc_wire) : Len(sc_wire[i].data) <= 250
    /\ (sc_pc = "done" /\ sc_result.ok) =>
          /\ Len(sc_message) > 0
          /\ Len(sc_message) <= 255 * 250
          /\ Len(PayloadFrames) = (Len(sc_message) + 249) \div 250
          /\ Flatten(PayloadFrames) = sc_message

C1_Witness ==
    /\ sc_pc = "done"
    /\ sc_result.ok
    /\ Len(sc_message) = 501
    /\ Len(PayloadFrames) = 3
    /\ Len(PayloadFrames[3]) = 1

\* C2: in a successful run the first exchange carries p1 = INIT, the following
\* ones ADD except the final one, which carries LAST; LAST is carried by exactly
\* one exchange, the last one sent; every exchange carries the template's class,
\* instruction and p2
C2_FramePositionMarkers ==
    /\ \A i \in 1..Len(sc_wire) :
          /\ sc_wire[i].cla = sc_command.cla
          /\ sc_wire[i].ins = sc_command.ins
          /\ sc_wire[i].p2 = sc_command.p2
    /\ \A i \in 1..(Len(sc_wire) - 1) : sc_wire[i].p1 # 2
    /\ (sc_pc = "done" /\ sc_result.ok) =>
          /\ Len(sc_wire) >= 2
          /\ sc_wire[1].p1 = 0
          /\ \A i \in 2..(Len(sc_wire) - 1) : sc_wire[i].p1 = 1
          /\ sc_wire[Len(sc_wire)].p1 = 2
          /\ Cardinality({i \in 1..Len(sc_wire) : sc_wire[i].p1 = 2}) = 1

C2_Witness ==
    /\ sc_pc = "done"
    /\ sc_result.ok
    /\ Len(sc_wire) = 4
    /\ sc_command.p2 = 1

\* C3: the exchanges are issued one after another in frame order, each only after
\* the previous one returned 0x9000; the first exchange that fails (a transport
\* error or another status) ends the call with that error, no remaining frame is
\* sent and no frame is sent again
C3_SequentialStopAtFirstFailure ==
    /\ Len(sc_answers) = Len(sc_wire) - (IF sc_pc \in {"init", "chunk"} THEN 1 ELSE 0)
    /\ \A i \in 1..(Len(sc_wire) - 1) : sc_answers[i] = 36864
    /\ \A i \in 2..Len(sc_wire) :
          sc_wire[i].data =
              SubSeq(sc_message, (i - 2) * 250 + 1, Min((i - 1) * 250, Len(sc_message)))
    /\ (Len(sc_answers) > 0 /\ sc_answers[Len(sc_answers)] # 36864) =>
          /\ sc_pc = "done"
          /\ ~sc_result.ok
          /\ Len(sc_wire) = Len(sc_answers)
          /\ IF sc_answers[Len(sc_answers)] = -1
             THEN sc_result.err = "TransportError"
             ELSE /\ sc_result.err \in {"AppSpecific", "Unknown"}
                  /\ sc_result.sw = sc_answers[Len(sc_answers)]
    /\ (sc_pc = "done" /\ sc_result.ok) =>
          /\ Len(sc_answers) = Len(sc_wire)
          /\ \A i \in 1..Len(sc_answers) : sc_answers[i] = 36864

C3_Witness ==
    /\ sc_pc = "done"
    /\ Len(sc_answers) = 2
    /\ sc_answers[2] = 27010
    /\ Len(sc_message) = 501
    /\ Len(sc_wire) = 2
    /\ sc_result.err = "AppSpecific"
    /\ sc_result.sw = 27010

\* C4: send_chunks performs no exchange and returns an error when the message is
\* empty (InvalidEmptyMessage), needs more than 255 frames of 250 bytes
\* (InvalidMessageSize), or the template's p1 is not INIT (InvalidChunkPayloadType)
C4_RejectedBeforeAnyExchange ==
    (Len(sc_message) = 0 \/ Len(sc_message) > 255 * 250 \/ sc_command.p1 # 0) =>
        /\ sc_wire = <<>>
        /\ sc_answers = <<>>
        /\ sc_pc \in {"start", "done"}
        /\ sc_pc = "done" =>
              /\ ~sc_result.ok
              /\ sc_result.err =
                    IF Len(sc_message) = 0 THEN "InvalidEmptyMessage"
                    ELSE IF Len(sc_message) > 255 * 250 THEN "InvalidMessageSize"
                    ELSE "InvalidChunkPayloadType"

C4_Witness ==
    /\ sc_pc = "done"
    /\ sc_result.err = "InvalidMessageSize"
    /\ Len(sc_message) = 255 * 250 + 1
    /\ sc_command.p1 = 0
    /\ sc_wire = <<>>

(***************************************************************************)
(* TransportNativeHID::write_apdu and read_apdu                            *)
(***************************************************************************)
LEDGER_CHANNEL == 257           \* 0x0101
LEDGER_PACKET_WRITE_SIZE == 65
LEDGER_PACKET_READ_SIZE == 64
PACKET_TAG == 5
WRITE_HEADER_SIZE == 6          \* chunks(LEDGER_PACKET_WRITE_SIZE - 6)

Zeros(n) == [i \in 1..n |-> 0]

\* the two bytes of a 16-bit value, high byte first; the `as u8` casts keep the
\* low 8 bits of each
HighByte(v) == (v \div 256) % 256
LowByte(v) == v % 256

\* write_apdu: the command prefixed with its length
in_data(apdu_command) ==
    <<HighByte(Len(apdu_command)), LowByte(Len(apdu_command))>> \o apdu_command

\* in_data.chunks(LEDGER_PACKET_WRITE_SIZE - 6): their number, and the chunk of index idx
WriteChunkSize == LEDGER_PACKET_WRITE_SIZE - WRITE_HEADER_SIZE

NumWriteChunks(apdu_command) == CeilDiv(Len(in_data(apdu_command)), WriteChunkSize)

WriteChunk(apdu_command, idx) ==
    SubSeq(in_data(apdu_command), idx * WriteChunkSize + 1,
           Min((idx + 1) * WriteChunkSize, Len(in_data(apdu_command))))

\* write_apdu: the buffer before the loop
InitialWriteBuffer_little_endian(channel) ==
    [i \in 1..LEDGER_PACKET_WRITE_SIZE |->
        IF i = 2 THEN LowByte(channel)
        ELSE IF i = 3 THEN HighByte(channel)
        ELSE IF i = 4 THEN PACKET_TAG
        ELSE 0]

InitialWriteBuffer(channel) ==
    [i \in 1..LEDGER_PACKET_WRITE_SIZE |->
        IF i = 2 THEN HighByte(channel)
        ELSE IF i = 3 THEN LowByte(channel)
        ELSE IF i = 4 THEN PACKET_TAG
        ELSE 0]

\* write_apdu: the buffer of one iteration; the bytes after the chunk keep what
\* the previous iteration left there
FillWriteBuffer(buffer, idx, chunk) ==
    [i \in 1..LEDGER_PACKET_WRITE_SIZE |->
        IF i = 5 THEN HighByte(idx)
        ELSE IF i = 6 THEN LowByte(idx)
        ELSE IF i > WRITE_HEADER_SIZE /\ i <= WRITE_HEADER_SIZE + Len(chunk)
             THEN chunk[i - WRITE_HEADER_SIZE]
        ELSE buffer[i]]

\* device.write: the bytes transferred, or -1 for an error of the HID layer
WriteResults == {LEDGER_PACKET_WRITE_SIZE, LEDGER_PACKET_WRITE_SIZE - 1, 0, -1}

\* write_apdu: the match on what device.write returned
WriteOutcome_accepts_short_writes(size, buffer) ==
    IF size = -1 THEN "Hid" ELSE "ok"

WriteOutcome(size, buffer) ==
    IF size = -1 THEN "Hid"
    ELSE IF size < Len(buffer) THEN "Comm"
    ELSE "ok"

\* read_apdu: the header fields of the buffer
RcvChannel(buffer) == buffer[1] * 256 + buffer[2]
RcvTag(buffer) == buffer[3]
RcvSeqIdx(buffer) == buffer[4] * 256 + buffer[5]
RcvLength(buffer) == buffer[6] * 256 + buffer[7]

\* read_apdu: the header is incomplete
IncompleteHeader_first_packet_only(sequence_idx, res) == sequence_idx = 0 /\ res < 7

IncompleteHeader(sequence_idx, res) == (sequence_idx = 0 /\ res < 7) \/ res < 5

\* read_apdu: the checks of channel, tag and sequence index
HeaderCheck_no_sequence_check(buffer, channel, sequence_idx) ==
    IF RcvChannel(buffer) # channel THEN "Invalid channel"
    ELSE IF RcvTag(buffer) # PACKET_TAG THEN "Invalid tag"
    ELSE "ok"

HeaderCheck(buffer, channel, sequence_idx) ==
    IF RcvChannel(buffer) # channel THEN "Invalid channel"
    ELSE IF RcvTag(buffer) # PACKET_TAG THEN "Invalid tag"
    ELSE IF RcvSeqIdx(buffer) # sequence_idx THEN "Invalid sequence index"
    ELSE "ok"

\* read_apdu: rdr.position() after the header
ReadPosition_ignores_length(buffer) == 5

ReadPosition(buffer) == IF RcvSeqIdx(buffer) = 0 THEN 7 ELSE 5

\* read_apdu: new_chunk
NewChunk_all_available(buffer, position, expected_apdu_len, answer_len) ==
    SubSeq(buffer, position + 1, Len(buffer))

NewChunk(buffer, position, expected_apdu_len, answer_len) ==
    LET available == Len(buffer) - position
        missing == expected_apdu_len - answer_len
        end_p == position + Min(available, missing)
    IN  SubSeq(buffer, position + 1, end_p)

\* device.read_timeout(&mut buffer): the delivered bytes overwrite the head of
\* the buffer, the rest keeps what it held
AfterRead(buffer, data) ==
    [i \in 1..Len(buffer) |-> IF i <= Len(data) THEN data[i] ELSE buffer[i]]

ReadOk(n) == [status |-> "ok", err |-> "None", n |-> n]
ReadErr(e) == [status |-> "err", err |-> e, n |-> 0]

\* the commands written: the short ones, those that just fill one or two
\* packets (57 and 57 + 59 bytes of command), the largest APDU (5 + 255) and
\* the largest below 10,000
WriteCommandLens ==
    (0..MaxShortLen) \cup {56, 57, 58, 115, 116, 117, 260, 9999}

WriteChannels == {LEDGER_CHANNEL, LEDGER_CHANNEL + 1}

fr_Init ==
    /\ h_pc = "write"
    /\ h_channel \in WriteChannels
    /\ \E len \in WriteCommandLens, seed \in 0..MaxSeed :
          h_command = BytePattern(len, seed)
    /\ h_idx = 0
    /\ h_wbuffer = InitialWriteBuffer(h_channel)
    /\ h_written = <<>>
    /\ h_wsizes = <<>>
    /\ h_wresult = "pending"
    /\ h_rbuffer = Zeros(LEDGER_PACKET_READ_SIZE)
    /\ h_sequence_idx = 0
    /\ h_expected_apdu_len = 0
    /\ h_answer = <<>>
    /\ h_reads = <<>>
    /\ h_rresult = NoReadResult

\* write_apdu: one iteration of the loop, one device.write
WritePacket ==
    /\ h_pc = "write"
    /\ h_idx < NumWriteChunks(h_command)
    /\ LET buffer == FillWriteBuffer(h_wbuffer, h_idx, WriteChunk(h_command, h_idx))
       IN  /\ h_wbuffer' = buffer
           /\ h_written' = Append(h_written, buffer)
           /\ \E size \in WriteResults :
                /\ h_wsizes' = Append(h_wsizes, size)
                /\ IF WriteOutcome(size, buffer) # "ok"
                   THEN /\ h_pc' = "done"
                        /\ h_wresult' = WriteOutcome(size, buffer)
                        /\ UNCHANGED h_idx
                   ELSE /\ h_idx' = h_idx + 1
                        /\ IF h_idx + 1 < NumWriteChunks(h_command)
                           THEN h_pc' = "write" /\ UNCHANGED h_wresult
                           ELSE h_pc' = "read" /\ h_wresult' = "ok"
    /\ UNCHANGED <<h_channel, h_command, h_rbuffer, h_sequence_idx,
                   h_expected_apdu_len, h_answer, h_reads, h_rresult>>
    /\ UNCHANGED h_Others

\* read_apdu: one iteration of the loop, given what device.read_timeout delivered
\* (res = Len(data) bytes, or an error of the HID layer)
ReadIteration(failed, data) ==
    LET res == Len(data)
        buffer == AfterRead(h_rbuffer, data)
        check == HeaderCheck(buffer, h_channel, h_sequence_idx)
        expected == IF RcvSeqIdx(buffer) = 0 THEN RcvLength(buffer)
                    ELSE h_expected_apdu_len
        answer == h_answer \o NewChunk(buffer, ReadPosition(buffer), expected,
                                       Len(h_answer))
    IN  /\ h_reads' = Append(h_reads, [failed |-> failed, data |-> data])
        /\ IF failed
           THEN /\ h_pc' = "done"
                /\ h_rresult' = ReadErr("Hid")
                /\ UNCHANGED <<h_rbuffer, h_sequence_idx, h_expected_apdu_len, h_answer>>
           ELSE IF IncompleteHeader(h_sequence_idx, res)
           THEN /\ h_pc' = "done"
                /\ h_rresult' = ReadErr("Incomplete header")
                /\ h_rbuffer' = buffer
                /\ UNCHANGED <<h_sequence_idx, h_expected_apdu_len, h_answer>>
           ELSE IF check # "ok"
           THEN /\ h_pc' = "done"
                /\ h_rresult' = ReadErr(check)
                /\ h_rbuffer' = buffer
                /\ UNCHANGED <<h_sequence_idx, h_expected_apdu_len, h_answer>>
           ELSE /\ h_rbuffer' = buffer
                /\ h_expected_apdu_len' = expected
                /\ h_answer' = answer
                /\ IF Len(answer) >= expected
                   THEN /\ h_pc' = "done"
                        /\ h_rresult' = ReadOk(Len(answer))
                        /\ UNCHANGED h_sequence_idx
                   ELSE /\ h_pc' = "read"
                        /\ h_sequence_idx' = h_sequence_idx + 1
                        /\ UNCHANGED h_rresult
        /\ UNCHANGED <<h_channel, h_command, h_idx, h_wbuffer, h_written, h_wsizes,
                       h_wresult>>
        /\ UNCHANGED h_Others

\* the packet of index i (from 0) written, as the device delivers it back: the
\* 65 bytes without the leading report id
Loopback(i) == Tail(h_written[i + 1])

\* read_apdu reads the next packet written, delivered unchanged and in order
ReadLoopback ==
    /\ h_pc = "read"
    /\ Len(h_reads) < Len(h_written)
    /\ ReadIteration(FALSE, Loopback(Len(h_reads)))

fr_Next ==
    \/ WritePacket
    \/ ReadLoopback

InitFramer == fr_Init /\ sc_Idle /\ x_Idle /\ st_Idle /\ e_Idle

SpecFramer == InitFramer /\ [][fr_Next]_vars

\* the data slices of the packets written: bytes 6..64 of each
WrittenSlices == [i \in 1..Len(h_written) |-> SubSeq(h_written[i], 7, 65)]

\* C5: for a command P, 0 < len(P) < 10,000, when the packets write_apdu wrote
\* are delivered unchanged and in order to read_apdu on the same channel (each
\* without its leading report id, as one 64-byte read), read_apdu returns
\* exactly P, for P in one packet and for P over several
C5_WriteReadRoundTrip ==
    /\ \A i \in 1..Len(h_reads) :
          h_reads[i] = [failed |-> FALSE, data |-> Tail(h_written[i])]
    /\ h_pc = "read" => Len(h_reads) < Len(h_written)
    /\ (h_pc = "done" /\ h_wresult = "ok" /\ Len(h_command) > 0) =>
          /\ h_rresult.status = "ok"
          /\ h_rresult.n = Len(h_command)
          /\ h_answer = h_command

C5_Witness ==
    /\ h_pc = "done"
    /\ h_wresult = "ok"
    /\ Len(h_command) = 117
    /\ Len(h_reads) = 3
    /\ h_rresult.status = "ok"
    /\ h_answer = h_command

DeclaredLens == {0, 1, 57, 58, 117}

\* bytes 5..63 of a packet: in a first packet the total length and 57 bytes of
\* payload, in a later one 59 bytes of payload
PacketRests == {<<HighByte(l), LowByte(l)>> \o BytePattern(57, l) : l \in DeclaredLens}

PacketHeader(channel, tag, seq) ==
    <<HighByte(channel), LowByte(channel), tag, HighByte(seq), LowByte(seq)>>

\* the packets the device may deliver when sequence_idx is expected: every
\* combination of a right or wrong channel, tag and sequence index
DevicePackets(channel, sequence_idx) ==
    {PacketHeader(c, t, q) \o rest :
        c \in {channel, channel + 1, channel + 256},
        t \in {PACKET_TAG, PACKET_TAG + 1},
        q \in {sequence_idx, sequence_idx + 1, 0},
        rest \in PacketRests}

\* what device.read_timeout reports as read: nothing (a timeout), less than a
\* header, the header of a later packet, that of a first packet, nearly all, all
ReadSizes == {0, 4, 5, 6, 7, LEDGER_PACKET_READ_SIZE - 1, LEDGER_PACKET_READ_SIZE}

rd_Init ==
    /\ h_pc = "read"
    /\ h_channel \in WriteChannels
    /\ h_command = <<>>
    /\ h_idx = 0
    /\ h_wbuffer = <<>>
    /\ h_written = <<>>
    /\ h_wsizes = <<>>
    /\ h_wresult = "pending"
    /\ h_rbuffer = Zeros(LEDGER_PACKET_READ_SIZE)
    /\ h_sequence_idx = 0
    /\ h_expected_apdu_len = 0
    /\ h_answer = <<>>
    /\ h_reads = <<>>
    /\ h_rresult = NoReadResult

\* read_apdu reads what the device delivers, or device.read_timeout fails
ReadDevice ==
    /\ h_pc = "read"
    /\ \/ ReadIteration(TRUE, <<>>)
       \/ \E packet \in DevicePackets(h_channel, h_sequence_idx), res \in ReadSizes :
             ReadIteration(FALSE, SubSeq(packet, 1, res))

rd_Next == ReadDevice

InitRead == rd_Init /\ sc_Idle /\ x_Idle /\ st_Idle /\ e_Idle

SpecRead == InitRead /\ [][rd_Next]_vars

\* the header of a delivered packet does not match: its channel is not the one
\* asked for, its tag is not 0x05, or its sequence index is not the number of
\* packets accepted before it
HeaderMismatch(data, channel, accepted) ==
    \/ data[1] * 256 + data[2] # channel
    \/ data[3] # 5
    \/ data[4] * 256 + data[5] # accepted

\* C7: on every packet, the first and the later ones, read_apdu fails at once
\* when the channel, the tag or the sequence index of the packet does not match:
\* nothing of the packet is appended to the answer and no further packet is read
C7_RejectMismatchedPacket ==
    [][/\ (/\ Len(h_reads') = Len(h_reads) + 1
           /\ ~h_reads'[Len(h_reads')].failed
           /\ Len(h_reads'[Len(h_reads')].data) >= 5
           /\ HeaderMismatch(h_reads'[Len(h_reads')].data, h_channel, Len(h_reads)))
          => /\ h_pc' = "done"
             /\ h_rresult'.status = "err"
             /\ h_answer' = h_answer
       /\ h_pc = "done" => h_reads' = h_reads]_vars

C7_Witness ==
    /\ h_pc = "done"
    /\ Len(h_reads) = 2
    /\ h_rresult.err = "Invalid sequence index"
    /\ Len(h_reads[2].data) = 64
    /\ Len(h_answer) = 57

\* the first packet was accepted, and the total length it declares
FirstPacketAccepted ==
    /\ Len(h_reads) >= 1
    /\ ~h_reads[1].failed
    /\ Len(h_reads) >= 2 \/ h_pc = "read" \/ h_rresult.status = "ok"

DeclaredTotal == h_reads[1].data[6] * 256 + h_reads[1].data[7]

\* the payload area of the i-th packet delivered
PayloadAreas ==
    [i \in 1..Len(h_reads) |->
        SubSeq(h_reads[i].data, IF i = 1 THEN 8 ELSE 6, Len(h_reads[i].data))]

\* C8: read_apdu returns exactly as many bytes as the first packet declares: it
\* stops as soon as the accumulated length reaches the total, the accumulated
\* length never exceeds it, and the padding after the payload is not returned
C8_ReturnsDeclaredLength ==
    /\ ~FirstPacketAccepted => h_answer = <<>>
    /\ FirstPacketAccepted =>
          /\ Len(h_answer) <= DeclaredTotal
          /\ h_pc = "read" => Len(h_answer) < DeclaredTotal
          /\ h_rresult.status = "ok" =>
                /\ Len(h_answer) = DeclaredTotal
                /\ h_rresult.n = DeclaredTotal
                /\ (\A i \in 1..Len(h_reads) : Len(h_reads[i].data) = 64) =>
                      h_answer = SubSeq(Flatten(PayloadAreas), 1, DeclaredTotal)

C8_Witness ==
    /\ h_rresult.status = "ok"
    /\ Len(h_reads) = 3
    /\ \A i \in 1..3 : Len(h_reads[i].data) = 64
    /\ DeclaredTotal = 117
    /\ Len(h_answer) = 117

(***************************************************************************)
(* TransportNativeHID::exchange, called by several callers on one transport *)
(***************************************************************************)
\* APDUCommand::serialize: class, instruction, p1, p2, payload length, payload
serialize(command) ==
    <<command.cla, command.ins, command.p1, command.p2, Len(command.data) % 256>>
        \o command.data

\* self.device.lock() returns when no other caller holds the guard
LockAvailable_no_mutex(owner) == TRUE

LockAvailable(owner) == owner = 0

\* the commands exchanged: one that fits one packet and one that needs two
ExchangeCommands ==
    {[cla |-> 224, ins |-> 12, p1 |-> 0, p2 |-> 1, data |-> BytePattern(len, 0)] :
        len \in {0, 100}}

\* the total lengths of the responses: a status word alone, and a signature
\* with its status word, which needs two packets
ResponseLens == {2, 67}

x_Init ==
    /\ x_pc = [c \in Callers |-> "call"]
    /\ x_owner = 0
    /\ x_ctx \in [Callers -> {[NoContext EXCEPT !.apdu = serialize(cmd)] :
                                cmd \in ExchangeCommands}]
    /\ x_log = <<>>

\* exchange: let device = self.device.lock()
ExchangeLock ==
    \E c \in Callers :
        /\ x_pc[c] = "call"
        /\ LockAvailable(x_owner)
        /\ x_owner' = c
        /\ x_pc' = [x_pc EXCEPT ![c] = "write"]
        /\ UNCHANGED <<x_ctx, x_log>>
        /\ UNCHANGED x_Others

\* exchange, in write_apdu: one iteration of the loop, one device.write
ExchangeWrite ==
    \E c \in Callers :
        /\ x_pc[c] = "write"
        /\ x_log' = Append(x_log, [caller |-> c, op |-> "write", idx |-> x_ctx[c].idx])
        /\ \E size \in WriteResults :
             IF size < LEDGER_PACKET_WRITE_SIZE
             THEN /\ x_pc' = [x_pc EXCEPT ![c] = "ret"]
                  /\ x_ctx' = [x_ctx EXCEPT ![c].result = "write error"]
             ELSE /\ x_ctx' = [x_ctx EXCEPT ![c].idx = @ + 1]
                  /\ x_pc' = [x_pc EXCEPT ![c] =
                                IF x_ctx[c].idx + 1 < NumWriteChunks(x_ctx[c].apdu)
                                THEN "write" ELSE "read"]
        /\ UNCHANGED x_owner
        /\ UNCHANGED x_Others

\* exchange, in read_apdu: one iteration of the loop, one device.read_timeout;
\* the device delivers the next packet of a response, or one that is refused
ExchangeRead ==
    \E c \in Callers :
        /\ x_pc[c] = "read"
        /\ x_log' = Append(x_log, [caller |-> c, op |-> "read",
                                   idx |-> x_ctx[c].sequence_idx])
        /\ \/ /\ x_pc' = [x_pc EXCEPT ![c] = "ret"]
              /\ x_ctx' = [x_ctx EXCEPT ![c].result = "read error"]
           \/ \E total \in ResponseLens :
                LET packet == PacketHeader(LEDGER_CHANNEL, PACKET_TAG, x_ctx[c].sequence_idx)
                                \o <<HighByte(total), LowByte(total)>> \o Zeros(57)
                    expected == IF x_ctx[c].sequence_idx = 0 THEN RcvLength(packet)
                                ELSE x_ctx[c].expected_apdu_len
                    got == x_ctx[c].answer_len +
                           Len(NewChunk(packet, ReadPosition(packet), expected,
                                        x_ctx[c].answer_len))
                IN  /\ HeaderCheck(packet, LEDGER_CHANNEL, x_ctx[c].sequence_idx) = "ok"
                    /\ IF got >= expected
                       THEN /\ x_pc' = [x_pc EXCEPT ![c] = "ret"]
                            /\ x_ctx' = [x_ctx EXCEPT ![c].expected_apdu_len = expected,
                                                      ![c].answer_len = got,
                                                      ![c].result = "ok"]
                       ELSE /\ x_pc' = [x_pc EXCEPT ![c] = "read"]
                            /\ x_ctx' = [x_ctx EXCEPT ![c].expected_apdu_len = expected,
                                                      ![c].answer_len = got,
                                                      ![c].sequence_idx = @ + 1]
        /\ UNCHANGED x_owner
        /\ UNCHANGED x_Others

\* exchange returns: the guard is dropped
ExchangeReturn ==
    \E c \in Callers :
        /\ x_pc[c] = "ret"
        /\ x_pc' = [x_pc EXCEPT ![c] = "done"]
        /\ x_owner' = IF x_owner = c THEN 0 ELSE x_owner
        /\ UNCHANGED <<x_ctx, x_log>>
        /\ UNCHANGED x_Others

x_Next ==
    \/ ExchangeLock
    \/ ExchangeWrite
    \/ ExchangeRead
    \/ ExchangeReturn

InitLock == x_Init /\ sc_Idle /\ h_Idle /\ st_Idle /\ e_Idle

SpecLock == InitLock /\ [][x_Next]_vars

\* C9: the packets of concurrent exchanges on one transport are never
\* interleaved: of any two exchanges, every packet one writes and reads happens
\* before the other writes its first packet
C9_ExchangesNotInterleaved ==
    /\ \A i \in 1..Len(x_log) : \A k \in i..Len(x_log) :
          x_log[i].caller = x_log[k].caller =>
              \A j \in i..k : x_log[j].caller = x_log[i].caller
    /\ \A c, d \in Callers :
          (c # d /\ x_pc[c] \in {"write", "read", "ret"}) =>
              x_pc[d] \in {"call", "done"}

C9_Witness ==
    /\ \A c \in Callers : x_pc[c] = "done" /\ x_ctx[c].result = "ok"
    /\ Len(x_log) >= 8
    /\ x_log[1].caller = 2
    /\ x_log[4] = [caller |-> 2, op |-> "read", idx |-> 1]
    /\ x_log[5].caller = 1

(***************************************************************************)
(* The status handling of every exchange of the command families           *)
(***************************************************************************)
\* AppExt::handle_response_error_signature
handle_response_error_signature_ignores_payload(response) ==
    handle_response_error(response)

handle_response_error_signature(response) ==
    LET c == error_code(response)
    IN  IF c.ok /\ c.code = "NoError" /\ response.data = <<>> THEN LedgerErr("NoSignature", 0)
        ELSE IF c.ok /\ c.code = "NoError" THEN LedgerOk
        ELSE LedgerErr("AppSpecific", c.sw)

EthSuccess == [kind |-> "Success", inner |-> "None", sw |-> 0]
EthErr(kind, inner, sw) == [kind |-> kind, inner |-> inner, sw |-> sw]

\* errors::map_ledger_error
map_ledger_error(err) ==
    IF err.err \in {"AppSpecific", "Unknown"} /\ err.sw = SW_USER_REJECTED
    THEN EthErr("UserRejected", "None", 0)
    ELSE IF err.err \in {"AppSpecific", "Unknown"}
    THEN EthErr("DeviceStatus", "None", err.sw)
    ELSE EthErr("Transport", err.err, err.sw)

\* .map_err(EthAppError::Transport)
MapTransport(err) == EthErr("Transport", err.err, err.sw)

\* every place a command family hands a command to the transport, with the
\* check of the response and the mapping of its error made there
Site(family, site, check, mapper) ==
    [family |-> family, site |-> site, check |-> check, mapper |-> mapper]

ExchangeSites ==
    {Site("struct_definition", "struct_name", "plain", "map_ledger_error"),
     Site("struct_definition", "struct_field", "plain", "map_ledger_error"),
     Site("struct_implementation", "root_struct", "plain", "map_ledger_error"),
     Site("struct_implementation", "struct_field", "plain", "Transport"),
     Site("struct_implementation", "array_size", "plain", "Transport"),
     Site("filtering", "filter_config", "plain", "Transport"),
     Site("filtering", "activation", "plain", "Transport"),
     Site("eip712_signing", "full", "plain", "Transport"),
     Site("eip712_signing", "v0", "plain", "Transport"),
     Site("personal_message", "first", "plain", "Transport"),
     Site("personal_message", "subsequent", "signature", "Transport"),
     Site("transaction", "start_flow", "signature", "Transport"),
     Site("transaction", "first", "plain", "Transport"),
     Site("transaction", "subsequent", "plain", "Transport"),
     Site("transaction", "last", "signature", "Transport")}

\* what the device answers there: the status words of the exchanges above, and
\* 0x6985 and 0x6D00
SiteOutcomes ==
    Outcomes \cup [kind : {"answer"}, sw : {27013, 27904}, data : {<<>>}]

\* the result of one exchange at a site
SiteResult(site, r) ==
    IF r.kind = "transport_error" THEN EthErr("Transport", "TransportError", 0)
    ELSE LET checked == IF site.check = "signature"
                        THEN handle_response_error_signature(r)
                        ELSE handle_response_error(r)
         IN  IF checked.ok THEN EthSuccess
             ELSE IF site.mapper = "map_ledger_error" THEN map_ledger_error(checked)
             ELSE MapTransport(checked)

st_Init ==
    /\ st_pc = "ready"
    /\ st_site = NoSite
    /\ st_outcome = [kind |-> "none", sw |-> 0, data |-> <<>>]
    /\ st_result = NoEthResult

\* one exchange of a command family: on success the command goes on (to its
\* next exchange or its end), on an error it returns it
SiteExchange ==
    /\ st_pc = "ready"
    /\ \E site \in ExchangeSites, r \in SiteOutcomes :
          /\ st_site' = site
          /\ st_outcome' = r
          /\ st_result' = SiteResult(site, r)
          /\ st_pc' = IF SiteResult(site, r).kind = "Success" THEN "ready" ELSE "returned"
    /\ UNCHANGED st_Others

st_Next == SiteExchange

InitStatus == st_Init /\ sc_Idle /\ h_Idle /\ x_Idle /\ e_Idle

SpecStatus == InitStatus /\ [][st_Next]_vars

\* C10: in every exchange of every command family a response with status word
\* 0x9000 is treated as success and one with status word 0x6982 is returned to
\* the caller as the UserRejected error, whatever the instruction
C10_StatusMappedEverywhere ==
    st_outcome.kind = "answer" =>
        /\ st_outcome.sw = 36864 => st_result.kind = "Success"
        /\ st_outcome.sw = 27010 => st_result.kind = "UserRejected"

\* C11: handle_response_error_signature gives NoSignature for status 0x9000
\* with an empty payload, succeeds for 0x9000 with a payload and gives an error
\* carrying the status word for every other status; handle_response_error
\* succeeds for 0x9000 whatever the payload
C11_SignatureResponseCheck ==
    st_outcome.kind = "answer" =>
        /\ st_site.check = "signature" =>
              st_result = IF st_outcome.sw # 36864
                          THEN EthErr("Transport", "AppSpecific", st_outcome.sw)
                          ELSE IF st_outcome.data = <<>>
                          THEN EthErr("Transport", "NoSignature", 0)
                          ELSE EthSuccess
        /\ (st_site.check = "plain" /\ st_outcome.sw = 36864) => st_result = EthSuccess

C11_Witness ==
    /\ st_site.check = "signature"
    /\ st_outcome.kind = "answer"
    /\ st_outcome.sw = 36864
    /\ st_outcome.data = <<>>
    /\ st_result.inner = "NoSignature"

(***************************************************************************)
(* EIP-712: field definitions, struct definitions                           *)
(***************************************************************************)
\* strings are the sequences of their bytes
S_amount == <<97, 109, 111, 117, 110, 116>>
S_a == <<97>>
S_to == <<116, 111>>
S_Person == <<80, 101, 114, 115, 111, 110>>
S_Mail == <<77, 97, 105, 108>>
S_Asset == <<65, 115, 115, 101, 116>>
S_EIP712Domain == <<69, 73, 80, 55, 49, 50, 68, 111, 109, 97, 105, 110>>

\* `as u8`
AsU8(n) == n % 256

\* Eip712FieldType
TypeCustom(name) == [kind |-> "Custom", size |-> 0, name |-> name]
TypeSized(kind, size) == [kind |-> kind, size |-> size, name |-> <<>>]
TypePlain(kind) == [kind |-> kind, size |-> 0, name |-> <<>>]

\* Eip712FieldType::type_id
type_id(field_type) ==
    CASE field_type.kind = "Custom" -> 0
      [] field_type.kind = "Int" -> 1
      [] field_type.kind = "Uint" -> 2
      [] field_type.kind = "Address" -> 3
      [] field_type.kind = "Bool" -> 4
      [] field_type.kind = "String" -> 5
      [] field_type.kind = "FixedBytes" -> 6
      [] field_type.kind = "DynamicBytes" -> 7

\* Eip712FieldType::type_size(..).is_some()
has_type_size(field_type) == field_type.kind \in {"Int", "Uint", "FixedBytes"}

\* Eip712FieldType::type_name(..).is_some()
has_type_name(field_type) == field_type.kind = "Custom"

\* Eip712ArrayLevel
LevelDynamic == [kind |-> "Dynamic", size |-> 0]
LevelFixed(size) == [kind |-> "Fixed", size |-> size]

\* Eip712ArrayLevel::type_id followed by Eip712ArrayLevel::size
EncodeLevel(level) ==
    IF level.kind = "Fixed" THEN <<1, level.size>> ELSE <<0>>

\* Eip712FieldDefinition
FieldDefinition(field_type, name, array_levels) ==
    [field_type |-> field_type, name |-> name, array_levels |-> array_levels]

\* Eip712FieldDefinition::is_array
is_array(field) == field.array_levels # <<>>

encode_field_definition_size_first(field) ==
    <<type_id(field.field_type)
        + (IF is_array(field) THEN 128 ELSE 0)
        + (IF has_type_size(field.field_type) THEN 64 ELSE 0)>>
    \o (IF has_type_size(field.field_type) THEN <<field.field_type.size>> ELSE <<>>)
    \o <<AsU8(Len(field.name))>> \o field.name
    \o (IF is_array(field)
        THEN <<AsU8(Len(field.array_levels))>>
             \o Flatten([i \in 1..Len(field.array_levels) |->
                            EncodeLevel(field.array_levels[i])])
        ELSE <<>>)

\* encode_field_definition
encode_field_definition(field) ==
    <<type_id(field.field_type)
        + (IF is_array(field) THEN 128 ELSE 0)
        + (IF has_type_size(field.field_type) THEN 64 ELSE 0)>>
    \o (IF has_type_name(field.field_type)
        THEN <<AsU8(Len(field.field_type.name))>> \o field.field_type.name
        ELSE <<>>)
    \o (IF has_type_size(field.field_type) THEN <<field.field_type.size>> ELSE <<>>)
    \o (IF is_array(field)
        THEN <<AsU8(Len(field.array_levels))>>
             \o Flatten([i \in 1..Len(field.array_levels) |->
                            EncodeLevel(field.array_levels[i])])
        ELSE <<>>)
    \o <<AsU8(Len(field.name))>> \o field.name

\* a command handed to the transport; the class byte is always EthApp::CLA
Command(ins, p1, p2, data) == [ins |-> ins, p1 |-> p1, p2 |-> p2, data |-> data]

\* the steps of a call: an exchange at one of the ExchangeSites, or a return
\* with an error made without any exchange
StepExchange(site, command) ==
    [kind |-> "exchange", site |-> site, command |-> command, err |-> "None",
     parse |-> "none"]
StepError(err) ==
    [kind |-> "error", site |-> NoSite, command |-> Command("none", "none", "none", <<>>),
     err |-> err, parse |-> "none"]
\* an exchange whose response data the code parses
StepExchangeParsed(site, command, parse) ==
    [kind |-> "exchange", site |-> site, command |-> command, err |-> "None",
     parse |-> parse]

\* the `?` operator: nothing after the first error is executed
RECURSIVE UntilError(_)
UntilError(steps) ==
    IF steps = <<>> THEN <<>>
    ELSE IF Head(steps).kind = "error" THEN <<Head(steps)>>
    ELSE <<Head(steps)>> \o UntilError(Tail(steps))

StructDefinition(name, fields) == [name |-> name, fields |-> fields]

send_struct_definition_fields_reversed(struct_def) ==
    <<StepExchange(Site("struct_definition", "struct_name", "plain", "map_ledger_error"),
                   Command("EIP712_SEND_STRUCT_DEFINITION", "0x00", "STRUCT_NAME",
                           struct_def.name))>>
    \o [i \in 1..Len(struct_def.fields) |->
          StepExchange(Site("struct_definition", "struct_field", "plain", "map_ledger_error"),
                       Command("EIP712_SEND_STRUCT_DEFINITION", "0x00", "STRUCT_FIELD",
                               encode_field_definition(
                                   struct_def.fields[Len(struct_def.fields) + 1 - i])))]

\* send_struct_definition: the name exchange, then one exchange per field
send_struct_definition(struct_def) ==
    <<StepExchange(Site("struct_definition", "struct_name", "plain", "map_ledger_error"),
                   Command("EIP712_SEND_STRUCT_DEFINITION", "0x00", "STRUCT_NAME",
                           struct_def.name))>>
    \o [i \in 1..Len(struct_def.fields) |->
          StepExchange(Site("struct_definition", "struct_field", "plain", "map_ledger_error"),
                       Command("EIP712_SEND_STRUCT_DEFINITION", "0x00", "STRUCT_FIELD",
                               encode_field_definition(struct_def.fields[i])))]

(***************************************************************************)
(* Strings, hexadecimal and decimal text, big integers                     *)
(***************************************************************************)
StartsWith(str, prefix) ==
    Len(str) >= Len(prefix) /\ SubSeq(str, 1, Len(prefix)) = prefix

\* &str[n..]
From(str, n) == SubSeq(str, n + 1, Len(str))

\* ASCII white space
WhiteSpace == {9, 10, 11, 12, 13, 32}

RECURSIVE TrimStart(_)
TrimStart(str) ==
    IF str # <<>> /\ Head(str) \in WhiteSpace THEN TrimStart(Tail(str)) ELSE str

RECURSIVE TrimEnd(_)
TrimEnd(str) ==
    IF str # <<>> /\ str[Len(str)] \in WhiteSpace
    THEN TrimEnd(SubSeq(str, 1, Len(str) - 1)) ELSE str

\* str::trim
Trim(str) == TrimEnd(TrimStart(str))

S_0x == <<48, 120>>
S_0X == <<48, 88>>
S_minus_0x == <<45, 48, 120>>
S_minus_0X == <<45, 48, 88>>

\* str::trim_start_matches("0x"): every leading "0x" is removed
RECURSIVE TrimStart0x(_)
TrimStart0x(str) ==
    IF StartsWith(str, S_0x) THEN TrimStart0x(From(str, 2)) ELSE str

IsDigit(c) == c \in 48..57

\* the value of a hexadecimal digit, -1 for another character
HexVal(c) ==
    IF c \in 48..57 THEN c - 48
    ELSE IF c \in 97..102 THEN c - 87
    ELSE IF c \in 65..70 THEN c - 55
    ELSE -1

\* hex::decode(..).is_ok(): an even number of hexadecimal digits
HexOk(str) ==
    /\ Len(str) % 2 = 0
    /\ \A i \in 1..Len(str) : HexVal(str[i]) >= 0

\* hex::decode
HexDecode(str) ==
    SubSeq([i \in 1..(Len(str) \div 2) |-> 16 * HexVal(str[2 * i - 1]) + HexVal(str[2 * i])],
           1, Len(str) \div 2)

\* str::parse::<u8>, ::<u16>: an optional '+', then digits, no overflow
RECURSIVE DigitsValue(_, _, _)
DigitsValue(str, acc, max) ==
    IF str = <<>> THEN acc
    ELSE IF acc * 10 + (Head(str) - 48) > max THEN -1
    ELSE DigitsValue(Tail(str), acc * 10 + (Head(str) - 48), max)

\* the number, -1 when the text is not one or does not fit
ParseUnsigned(str, max) ==
    LET digits == IF str # <<>> /\ Head(str) = 43 THEN Tail(str) ELSE str
    IN  IF digits = <<>> \/ \E i \in 1..Len(digits) : ~IsDigit(digits[i]) THEN -1
        ELSE DigitsValue(digits, 0, max)

\* a BigUint is the sequence of its bytes, most significant first, without
\* leading zero bytes; zero is the empty sequence
RECURSIVE StripZeros(_)
StripZeros(bytes) ==
    IF bytes # <<>> /\ Head(bytes) = 0 THEN StripZeros(Tail(bytes)) ELSE bytes

\* BigUint::from_bytes_be
from_bytes_be(bytes) == StripZeros(bytes)

\* BigUint::from(u64)
RECURSIVE BigFromNat(_)
BigFromNat(n) == IF n = 0 THEN <<>> ELSE BigFromNat(n \div 256) \o <<n % 256>>

\* big * 10 + carry, the least significant byte last
RECURSIVE MulTenAdd(_, _)
MulTenAdd(big, carry) ==
    IF big = <<>> THEN BigFromNat(carry)
    ELSE LET v == big[Len(big)] * 10 + carry
         IN  MulTenAdd(SubSeq(big, 1, Len(big) - 1), v \div 256) \o <<v % 256>>

RECURSIVE DecimalValue(_, _)
DecimalValue(digits, acc) ==
    IF digits = <<>> THEN acc
    ELSE IF Head(digits) = 95 THEN DecimalValue(Tail(digits), acc)
    ELSE DecimalValue(Tail(digits), StripZeros(MulTenAdd(acc, Head(digits) - 48)))

\* BigUint::parse_bytes(s, 10).is_some(): an optional '+', then digits, with
\* '_' allowed between them
DecimalOk(str) ==
    LET digits == IF str # <<>> /\ Head(str) = 43 /\ ~StartsWith(Tail(str), <<43>>)
                  THEN Tail(str) ELSE str
    IN  /\ digits # <<>>
        /\ Head(digits) # 95
        /\ \A i \in 1..Len(digits) : IsDigit(digits[i]) \/ digits[i] = 95

\* BigUint::parse_bytes(s, 10)
DecimalParse(str) ==
    DecimalValue(IF Head(str) = 43 THEN Tail(str) ELSE str, <<>>)

\* order of two BigUint: -1, 0, 1
RECURSIVE CmpBytes(_, _)
CmpBytes(a, b) ==
    IF Len(a) # Len(b) THEN (IF Len(a) < Len(b) THEN -1 ELSE 1)
    ELSE IF a = <<>> THEN 0
    ELSE IF Head(a) # Head(b) THEN (IF Head(a) < Head(b) THEN -1 ELSE 1)
    ELSE CmpBytes(Tail(a), Tail(b))

\* String::cmp: the order of the bytes
RECURSIVE StrLess(_, _)
StrLess(a, b) ==
    IF b = <<>> THEN FALSE
    ELSE IF a = <<>> THEN TRUE
    ELSE IF Head(a) # Head(b) THEN Head(a) < Head(b)
    ELSE StrLess(Tail(a), Tail(b))

(***************************************************************************)
(* Eip712Converter::parse_field_type                                       *)
(***************************************************************************)
S_bool == <<98, 111, 111, 108>>
S_address == <<97, 100, 100, 114, 101, 115, 115>>
S_string == <<115, 116, 114, 105, 110, 103>>
S_bytes == <<98, 121, 116, 101, 115>>
S_uint == <<117, 105, 110, 116>>
S_int == <<105, 110, 116>>

TypeOk(field_type) == [ok |-> TRUE, field_type |-> field_type]
TypeErr == [ok |-> FALSE, field_type |-> TypePlain("None")]

\* Eip712Converter::parse_base_field_type
parse_base_field_type_width_in_bits(type_str) ==
    IF type_str = S_bool THEN TypeOk(TypePlain("Bool"))
    ELSE IF type_str = S_address THEN TypeOk(TypePlain("Address"))
    ELSE IF type_str = S_string THEN TypeOk(TypePlain("String"))
    ELSE IF type_str = S_bytes THEN TypeOk(TypePlain("DynamicBytes"))
    ELSE IF StartsWith(type_str, S_bytes)
    THEN LET size == ParseUnsigned(From(type_str, 5), 255)
         IN  IF size > 0 /\ size <= 32 THEN TypeOk(TypeSized("FixedBytes", size))
             ELSE TypeErr
    ELSE IF StartsWith(type_str, S_uint)
    THEN LET size == ParseUnsigned(From(type_str, 4), 65535)
         IN  IF size > 0 /\ size <= 256 /\ size % 8 = 0
             THEN TypeOk(TypeSized("Uint", size % 256))
             ELSE TypeErr
    ELSE IF StartsWith(type_str, S_int)
    THEN LET size == ParseUnsigned(From(type_str, 3), 65535)
         IN  IF size > 0 /\ size <= 256 /\ size % 8 = 0
             THEN TypeOk(TypeSized("Int", size % 256))
             ELSE TypeErr
    ELSE TypeOk(TypeCustom(type_str))

parse_base_field_type(type_str) ==
    IF type_str = S_bool THEN TypeOk(TypePlain("Bool"))
    ELSE IF type_str = S_address THEN TypeOk(TypePlain("Address"))
    ELSE IF type_str = S_string THEN TypeOk(TypePlain("String"))
    ELSE IF type_str = S_bytes THEN TypeOk(TypePlain("DynamicBytes"))
    ELSE IF StartsWith(type_str, S_bytes)
    THEN LET size == ParseUnsigned(From(type_str, 5), 255)
         IN  IF size > 0 /\ size <= 32 THEN TypeOk(TypeSized("FixedBytes", size))
             ELSE TypeErr
    ELSE IF StartsWith(type_str, S_uint)
    THEN LET size == ParseUnsigned(From(type_str, 4), 65535)
         IN  IF size > 0 /\ size <= 256 /\ size % 8 = 0
             THEN TypeOk(TypeSized("Uint", size \div 8))
             ELSE TypeErr
    ELSE IF StartsWith(type_str, S_int)
    THEN LET size == ParseUnsigned(From(type_str, 3), 65535)
         IN  IF size > 0 /\ size <= 256 /\ size % 8 = 0
             THEN TypeOk(TypeSized("Int", size \div 8))
             ELSE TypeErr
    ELSE TypeOk(TypeCustom(type_str))

\* the position of the last '[' of the text, 0 when there is none
RECURSIVE LastBracket(_, _)
LastBracket(str, i) ==
    IF i = 0 THEN 0 ELSE IF str[i] = 91 THEN i ELSE LastBracket(str, i - 1)

\* str::trim_end_matches(']')
RECURSIVE TrimEndBrackets(_)
TrimEndBrackets(str) ==
    IF str # <<>> /\ str[Len(str)] = 93
    THEN TrimEndBrackets(SubSeq(str, 1, Len(str) - 1)) ELSE str

\* Eip712Converter::parse_field_type: the array level of the text is parsed and
\* dropped, the type of the elements is returned
parse_field_type(text) ==
    LET type_str == Trim(text)
    IN  IF type_str # <<>> /\ type_str[Len(type_str)] = 93
        THEN LET at == LastBracket(type_str, Len(type_str))
                 array_spec == TrimEndBrackets(From(type_str, at))
             IN  IF at = 0 THEN TypeErr
                 ELSE IF array_spec # <<>> /\ ParseUnsigned(array_spec, 255) < 0 THEN TypeErr
                 ELSE parse_base_field_type(SubSeq(type_str, 1, at - 1))
        ELSE parse_base_field_type(type_str)

(***************************************************************************)
(* JSON values, and their conversion to field values                       *)
(***************************************************************************)
\* serde_json::Value; the keys of an object are strings
JsonNull == [kind |-> "null"]
JsonBool(b) == [kind |-> "bool", bool |-> b]
\* a number that is an integer: its sign and its magnitude as a BigUint
JsonInteger(negative, magnitude) ==
    [kind |-> "number", negative |-> negative /\ magnitude # <<>>, magnitude |-> magnitude]
JsonNumber(n) == JsonInteger(n < 0, BigFromNat(IF n < 0 THEN -n ELSE n))
JsonString(str) == [kind |-> "string", str |-> str]
JsonArray(items) == [kind |-> "array", items |-> items]
JsonObject(fields) == [kind |-> "object", fields |-> fields]

\* Value::get(key).is_some()
JsonHas(value, key) == value.kind = "object" /\ key \in DOMAIN value.fields

BytesOk(bytes) == [ok |-> TRUE, bytes |-> bytes]
BytesErr == [ok |-> FALSE, bytes |-> <<>>]

\* 2^63
I64_MIN_MAGNITUDE == <<128, 0, 0, 0, 0, 0, 0, 0>>

\* Value::as_u64(..).is_some(): the number is an integer of 0..2^64-1
is_u64(value) ==
    value.kind = "number" /\ ~value.negative /\ Len(value.magnitude) <= 8

\* Value::as_i64(..).is_some(): the number is an integer of -2^63..2^63-1
is_i64(value) ==
    /\ value.kind = "number"
    /\ \/ CmpBytes(value.magnitude, I64_MIN_MAGNITUDE) < 0
       \/ value.negative /\ value.magnitude = I64_MIN_MAGNITUDE

\* the BigUint of a JSON number or of a decimal or 0x text
UintOfJson(value) ==
    IF is_u64(value) THEN BytesOk(value.magnitude)
    ELSE IF value.kind = "string"
    THEN LET str == Trim(value.str)
         IN  IF StartsWith(str, S_0x) \/ StartsWith(str, S_0X)
             THEN (IF HexOk(From(str, 2)) THEN BytesOk(from_bytes_be(HexDecode(From(str, 2))))
                   ELSE BytesErr)
             ELSE IF DecimalOk(str) THEN BytesOk(DecimalParse(str))
             ELSE BytesErr
    ELSE BytesErr

parse_uint_to_min_be_without_range_check(value, size_bytes) ==
    LET big == UintOfJson(value)
    IN  IF ~big.ok THEN BytesErr
        ELSE IF big.bytes = <<>> THEN BytesOk(<<0>>)
        ELSE BytesOk(big.bytes)

\* Eip712Converter::parse_uint_to_min_be
parse_uint_to_min_be(value, size_bytes) ==
    LET big == UintOfJson(value)
    IN  IF ~big.ok THEN BytesErr
        ELSE IF Len(big.bytes) > size_bytes THEN BytesErr
        ELSE IF big.bytes = <<>> THEN BytesOk(<<0>>)
        ELSE BytesOk(big.bytes)

\* a BigInt: its sign and its magnitude; zero has no sign
BigInt(negative, magnitude) ==
    [ok |-> TRUE, negative |-> negative /\ magnitude # <<>>, magnitude |-> magnitude]
BigIntErr == [ok |-> FALSE, negative |-> FALSE, magnitude |-> <<>>]

\* BigInt::parse_bytes(s, 10)
BigIntDecimal(str) ==
    LET negative == str # <<>> /\ Head(str) = 45
        rest == IF negative /\ ~StartsWith(Tail(str), <<43>>) THEN Tail(str) ELSE str
    IN  IF DecimalOk(rest) THEN BigInt(negative, DecimalParse(rest)) ELSE BigIntErr

\* the BigInt of a JSON number or of a decimal, 0x or -0x text
IntOfJson(value) ==
    IF is_i64(value) THEN BigInt(value.negative, value.magnitude)
    ELSE IF value.kind = "string"
    THEN LET str == Trim(value.str)
         IN  IF StartsWith(str, S_minus_0x) \/ StartsWith(str, S_minus_0X)
             THEN (IF HexOk(From(str, 3))
                   THEN BigInt(TRUE, from_bytes_be(HexDecode(From(str, 3))))
                   ELSE BigIntErr)
             ELSE IF StartsWith(str, S_0x) \/ StartsWith(str, S_0X)
             THEN (IF HexOk(From(str, 2))
                   THEN BigInt(FALSE, from_bytes_be(HexDecode(From(str, 2))))
                   ELSE BigIntErr)
             ELSE BigIntDecimal(str)
    ELSE BigIntErr

\* bytes + 1 on Len(bytes) bytes
RECURSIVE AddOne(_)
AddOne(bytes) ==
    IF bytes = <<>> THEN <<>>
    ELSE IF bytes[Len(bytes)] = 255
    THEN AddOne(SubSeq(bytes, 1, Len(bytes) - 1)) \o <<0>>
    ELSE SubSeq(bytes, 1, Len(bytes) - 1) \o <<bytes[Len(bytes)] + 1>>

\* (2^(8 * size_bytes) - magnitude) % 2^(8 * size_bytes)
TwosComplement(magnitude, size_bytes) ==
    LET padded == Zeros(size_bytes - Len(magnitude)) \o magnitude
    IN  StripZeros(AddOne([i \in 1..size_bytes |-> 255 - padded[i]]))

\* the loops that drop the redundant sign bytes
RECURSIVE TrimSign(_, _)
TrimSign(full, negative) ==
    IF Len(full) > 1 /\ negative /\ full[1] = 255 /\ full[2] >= 128
    THEN TrimSign(Tail(full), negative)
    ELSE IF Len(full) > 1 /\ ~negative /\ full[1] = 0 /\ full[2] < 128
    THEN TrimSign(Tail(full), negative)
    ELSE full

parse_int_to_min_be_symmetric_range(value, size_bytes) ==
    LET big == IntOfJson(value)
        half == <<128>> \o Zeros(size_bytes - 1)
        as_uint == IF big.negative THEN TwosComplement(big.magnitude, size_bytes)
                   ELSE big.magnitude
        full == IF as_uint = <<>> THEN <<0>> ELSE as_uint
    IN  IF ~big.ok THEN BytesErr
        ELSE IF CmpBytes(big.magnitude, half) >= 0 THEN BytesErr
        ELSE IF Len(full) > size_bytes THEN BytesErr
        ELSE BytesOk(TrimSign(full, big.negative))

\* Eip712Converter::parse_int_to_min_be
parse_int_to_min_be(value, size_bytes) ==
    LET big == IntOfJson(value)
        half == <<128>> \o Zeros(size_bytes - 1)
        as_uint == IF big.negative THEN TwosComplement(big.magnitude, size_bytes)
                   ELSE big.magnitude
        full == IF as_uint = <<>> THEN <<0>> ELSE as_uint
    IN  IF ~big.ok THEN BytesErr
        ELSE IF big.negative /\ CmpBytes(big.magnitude, half) > 0 THEN BytesErr
        ELSE IF ~big.negative /\ CmpBytes(big.magnitude, half) >= 0 THEN BytesErr
        ELSE IF Len(full) > size_bytes THEN BytesErr
        ELSE BytesOk(TrimSign(full, big.negative))

\* Eip712FieldValue::from_address_string
from_address_string(address) ==
    LET hex_str == IF StartsWith(address, S_0x) THEN From(address, 2) ELSE address
    IN  IF Len(hex_str) # 40 THEN BytesErr
        ELSE IF ~HexOk(hex_str) THEN BytesErr
        ELSE BytesOk(HexDecode(hex_str))

\* Eip712Converter::convert_value_to_field_value
convert_value_to_field_value(value, field_type) ==
    CASE field_type.kind = "Bool" ->
            IF value.kind = "bool" THEN BytesOk(IF value.bool THEN <<1>> ELSE <<0>>)
            ELSE BytesErr
      [] field_type.kind = "Address" ->
            IF value.kind = "string" THEN from_address_string(value.str) ELSE BytesErr
      [] field_type.kind = "String" ->
            IF value.kind = "string" THEN BytesOk(value.str) ELSE BytesErr
      [] field_type.kind = "Uint" -> parse_uint_to_min_be(value, field_type.size)
      [] field_type.kind = "Int" -> parse_int_to_min_be(value, field_type.size)
      [] field_type.kind = "FixedBytes" ->
            IF value.kind # "string" THEN BytesErr
            ELSE IF ~HexOk(TrimStart0x(value.str)) THEN BytesErr
            ELSE IF Len(HexDecode(TrimStart0x(value.str))) # field_type.size THEN BytesErr
            ELSE BytesOk(HexDecode(TrimStart0x(value.str)))
      [] field_type.kind = "DynamicBytes" ->
            IF value.kind # "string" THEN BytesErr
            ELSE IF ~HexOk(TrimStart0x(value.str)) THEN BytesErr
            ELSE BytesOk(HexDecode(TrimStart0x(value.str)))
      [] field_type.kind = "Custom" -> BytesOk(<<>>)

(***************************************************************************)
(* EIP-712: struct implementations                                         *)
(***************************************************************************)
APDU_MAX_PAYLOAD == 255

\* (n as u16).to_be_bytes()
U16BeBytes(n) == <<(n % 65536) \div 256, n % 256>>

StructImplementation(name, values) == [name |-> name, values |-> values]

\* the buffer of a value: its length on two bytes, then its bytes
ValueBuffer(value) == U16BeBytes(Len(value)) \o value

ValueFrames_all_complete(value) ==
    LET buffer == ValueBuffer(value)
        count == CeilDiv(Len(buffer), APDU_MAX_PAYLOAD)
    IN  [k \in 1..count |->
            StepExchange(Site("struct_implementation", "struct_field", "plain", "Transport"),
                         Command("EIP712_SEND_STRUCT_IMPLEMENTATION",
                                 "COMPLETE_SEND",
                                 "STRUCT_FIELD",
                                 SubSeq(buffer, (k - 1) * APDU_MAX_PAYLOAD + 1,
                                        Min(k * APDU_MAX_PAYLOAD, Len(buffer)))))]

\* the while loop over the buffer of a value: one exchange per chunk
ValueFrames(value) ==
    LET buffer == ValueBuffer(value)
        count == CeilDiv(Len(buffer), APDU_MAX_PAYLOAD)
    IN  [k \in 1..count |->
            StepExchange(Site("struct_implementation", "struct_field", "plain", "Transport"),
                         Command("EIP712_SEND_STRUCT_IMPLEMENTATION",
                                 IF k * APDU_MAX_PAYLOAD >= Len(buffer)
                                 THEN "COMPLETE_SEND" ELSE "PARTIAL_SEND",
                                 "STRUCT_FIELD",
                                 SubSeq(buffer, (k - 1) * APDU_MAX_PAYLOAD + 1,
                                        Min(k * APDU_MAX_PAYLOAD, Len(buffer)))))]

\* send_struct_implementation: the root-struct exchange, then the frames of
\* each value
send_struct_implementation(struct_impl) ==
    <<StepExchange(Site("struct_implementation", "root_struct", "plain", "map_ledger_error"),
                   Command("EIP712_SEND_STRUCT_IMPLEMENTATION", "COMPLETE_SEND", "ROOT_STRUCT",
                           struct_impl.name))>>
    \o Flatten([j \in 1..Len(struct_impl.values) |-> ValueFrames(struct_impl.values[j])])

(***************************************************************************)
(* BIP32 paths                                                             *)
(***************************************************************************)
MAX_BIP32_PATH_DEPTH == 10

\* an index of a path: the bit 0x80000000 and the other 31 bits
PathIndex(hardened, n) == [hardened |-> hardened, n |-> n]

\* u32::to_be_bytes
IndexBytes(index) ==
    <<(IF index.hardened THEN 128 ELSE 0) + index.n \div 16777216,
      (index.n \div 65536) % 256, (index.n \div 256) % 256, index.n % 256>>

encode_bip32_path_without_count(path) ==
    Flatten([i \in 1..Len(path) |-> IndexBytes(path[i])])

\* utils::encode_bip32_path
encode_bip32_path(path) ==
    <<AsU8(Len(path))>> \o Flatten([i \in 1..Len(path) |-> IndexBytes(path[i])])

validate_bip32_path_any_depth(path) ==
    /\ path # <<>>
    /\ ~ /\ Len(path) >= 3
         /\ path[1] = PathIndex(TRUE, 44)
         /\ path[2] = PathIndex(TRUE, 60)
         /\ ~path[3].hardened

\* utils::validate_bip32_path(path).is_ok()
validate_bip32_path(path) ==
    /\ path # <<>>
    /\ Len(path) <= MAX_BIP32_PATH_DEPTH
    /\ ~ /\ Len(path) >= 3
         /\ path[1] = PathIndex(TRUE, 44)
         /\ path[2] = PathIndex(TRUE, 60)
         /\ ~path[3].hardened

\* BipPath::ethereum_standard: 0x80000000 | account sets the top bit of the
\* account whether or not it was set
ethereum_standard(account, address_index) ==
    <<PathIndex(TRUE, 44), PathIndex(TRUE, 60), PathIndex(TRUE, account.n),
      PathIndex(FALSE, 0), address_index>>

\* the path m/44'/60'/0'/0/0
StandardPath == ethereum_standard(PathIndex(FALSE, 0), PathIndex(FALSE, 0))

\* BipPath::new
PathOk(path, offset) == [ok |-> TRUE, path |-> path, offset |-> offset]
PathErr == [ok |-> FALSE, path |-> <<>>, offset |-> 0]
BipPath_new(indices) ==
    IF Len(indices) > MAX_BIP32_PATH_DEPTH THEN PathErr ELSE PathOk(indices, 0)

BIP32_INDEX_SIZE == 4

\* u32::from_be_bytes
IndexOfBytes(bytes) ==
    PathIndex(bytes[1] >= 128,
              (bytes[1] % 128) * 16777216 + bytes[2] * 65536 + bytes[3] * 256 + bytes[4])

\* utils::decode_bip32_path: the path and the offset behind it
decode_bip32_path(data) ==
    IF data = <<>> THEN PathErr
    ELSE IF data[1] > MAX_BIP32_PATH_DEPTH THEN PathErr
    ELSE IF Len(data) < 1 + data[1] * BIP32_INDEX_SIZE THEN PathErr
    ELSE LET indices ==
                 [i \in 1..data[1] |->
                     IndexOfBytes(SubSeq(data, 2 + (i - 1) * BIP32_INDEX_SIZE,
                                         1 + i * BIP32_INDEX_SIZE))]
         IN  IF BipPath_new(indices).ok
             THEN PathOk(indices, 1 + data[1] * BIP32_INDEX_SIZE)
             ELSE PathErr


(***************************************************************************)
(* Signing: sign_eip712_full, parse_signature_response                     *)
(***************************************************************************)
SignatureOk(v, r, s) == [kind |-> "Signature", v |-> v, r |-> r, s |-> s]

parse_signature_response_any_length(data) ==
    IF Len(data) < 65 THEN EthErr("InvalidResponseData", "None", 0)
    ELSE SignatureOk(data[1], SubSeq(data, 2, 33), SubSeq(data, 34, Len(data)))

\* parse_signature_response, with Signature::new
parse_signature_response(data) ==
    IF Len(data) # 65 THEN EthErr("InvalidResponseData", "None", 0)
    ELSE LET v == data[1]
             r == SubSeq(data, 2, 33)
             s == SubSeq(data, 34, 65)
         IN  IF Len(r) # 32 \/ Len(s) # 32 THEN EthErr("InvalidSignature", "None", 0)
             ELSE SignatureOk(v, r, s)

\* sign_eip712_full: the path is validated, then one exchange
sign_eip712_full(path) ==
    IF ~validate_bip32_path(path) THEN <<StepError("InvalidBip32Path")>>
    ELSE <<StepExchangeParsed(Site("eip712_signing", "full", "plain", "Transport"),
                              Command("SIGN_ETH_EIP712", "FIRST_CHUNK",
                                      "FULL_IMPLEMENTATION", encode_bip32_path(path)),
                              "parse_signature_response")>>

(***************************************************************************)
(* Typed data: sign_eip712_typed_data, sign_eip712_from_json                *)
(***************************************************************************)
Some(v) == [some |-> TRUE, v |-> v]
None == [some |-> FALSE, v |-> <<>>]

\* Eip712Domain
Domain(name, version, chain_id, verifying_contract, salt) ==
    [name |-> name, version |-> version, chain_id |-> chain_id,
     verifying_contract |-> verifying_contract, salt |-> salt]

\* Eip712Field
Field(name, type) == [name |-> name, type |-> type]

\* Eip712TypedData::new; types maps the name of each struct to its fields
TypedData(domain, types, primary_type, message) ==
    [domain |-> domain, types |-> types, primary_type |-> primary_type,
     message |-> message]

\* Eip712Converter::convert_types_to_definitions(..).is_ok()
TypesOk(types) ==
    \A n \in DOMAIN types : \A i \in 1..Len(types[n]) :
        parse_field_type(types[n][i].type).ok

\* Eip712Converter::convert_types_to_definitions: the definition of a struct
DefinitionOf(types, n) ==
    StructDefinition(n, [i \in 1..Len(types[n]) |->
        FieldDefinition(parse_field_type(types[n][i].type).field_type,
                        types[n][i].name, <<>>)])

RECURSIVE SortStrings_descending(_)
SortStrings_descending(names) ==
    IF names = {} THEN <<>>
    ELSE LET first == CHOOSE x \in names : \A y \in names \ {x} : StrLess(y, x)
         IN  <<first>> \o SortStrings_descending(names \ {first})

\* defs_sorted.sort_by(|a, b| a.name.cmp(&b.name)), on the names
RECURSIVE SortStrings(_)
SortStrings(names) ==
    IF names = {} THEN <<>>
    ELSE LET first == CHOOSE x \in names : \A y \in names \ {x} : StrLess(x, y)
         IN  <<first>> \o SortStrings(names \ {first})

\* the values of the EIP712Domain implementation: name, version, chainId,
\* verifyingContract, those the domain has
DomainValues(domain) ==
    (IF domain.name.some THEN <<BytesOk(domain.name.v)>> ELSE <<>>)
    \o (IF domain.version.some THEN <<BytesOk(domain.version.v)>> ELSE <<>>)
    \o (IF domain.chain_id.some
        THEN <<parse_uint_to_min_be(JsonInteger(FALSE, domain.chain_id.v), 32)>> ELSE <<>>)
    \o (IF domain.verifying_contract.some
        THEN <<from_address_string(domain.verifying_contract.v)>> ELSE <<>>)

\* the conversions of the values of a struct, in the order of its fields
MessageValues(message, fields) ==
    [i \in 1..Len(fields) |->
        IF ~JsonHas(message, fields[i].name) THEN BytesErr
        ELSE IF ~parse_field_type(fields[i].type).ok THEN BytesErr
        ELSE convert_value_to_field_value(message.fields[fields[i].name],
                                          parse_field_type(fields[i].type).field_type)]

ImplementationSteps_values_only(name, converted) ==
    IF \E i \in 1..Len(converted) : ~converted[i].ok
    THEN <<StepError("InvalidEip712Data")>>
    ELSE Flatten([j \in 1..Len(converted) |-> ValueFrames(converted[j].bytes)])

\* an implementation is sent when every conversion succeeded
ImplementationSteps(name, converted) ==
    IF \E i \in 1..Len(converted) : ~converted[i].ok
    THEN <<StepError("InvalidEip712Data")>>
    ELSE send_struct_implementation(
             StructImplementation(name, [i \in 1..Len(converted) |-> converted[i].bytes]))

\* SignEip712TypedData::sign_eip712_typed_data
sign_eip712_typed_data(path, typed_data) ==
    IF ~validate_bip32_path(path) THEN <<StepError("InvalidBip32Path")>>
    ELSE IF ~TypesOk(typed_data.types) THEN <<StepError("InvalidEip712Data")>>
    ELSE UntilError(
        LET defs_sorted == SortStrings(DOMAIN typed_data.types)
        IN  Flatten([i \in 1..Len(defs_sorted) |->
                        send_struct_definition(DefinitionOf(typed_data.types, defs_sorted[i]))])
            \o (IF S_EIP712Domain \in DOMAIN typed_data.types
                THEN ImplementationSteps(S_EIP712Domain, DomainValues(typed_data.domain))
                ELSE <<>>)
            \o (IF typed_data.primary_type \notin DOMAIN typed_data.types
                THEN <<StepError("InvalidEip712Data")>>
                ELSE ImplementationSteps(
                         typed_data.primary_type,
                         MessageValues(typed_data.message,
                                       typed_data.types[typed_data.primary_type])))
            \o sign_eip712_full(path))

(***************************************************************************)
(* Eip712Converter::parse_json_to_typed_data                                *)
(***************************************************************************)
\* the keys of the document
K_domain == <<100, 111, 109, 97, 105, 110>>
K_types == <<116, 121, 112, 101, 115>>
K_primaryType == <<112, 114, 105, 109, 97, 114, 121, 84, 121, 112, 101>>
K_message == <<109, 101, 115, 115, 97, 103, 101>>
K_name == <<110, 97, 109, 101>>
K_version == <<118, 101, 114, 115, 105, 111, 110>>
K_chainId == <<99, 104, 97, 105, 110, 73, 100>>
K_verifyingContract == <<118, 101, 114, 105, 102, 121, 105, 110, 103, 67, 111, 110, 116, 114, 97, 99, 116>>
K_salt == <<115, 97, 108, 116>>
K_type == <<116, 121, 112, 101>>

\* Value::as_str of the member of an object, when there is one
StrAt(object, key) ==
    IF JsonHas(object, key) /\ object.fields[key].kind = "string"
    THEN Some(object.fields[key].str) ELSE None

\* Value::as_u64 of the member of an object, when there is one
U64At(object, key) ==
    IF JsonHas(object, key) /\ is_u64(object.fields[key])
    THEN Some(object.fields[key].magnitude) ELSE None

\* Eip712Converter::parse_domain
parse_domain(domain_value) ==
    IF domain_value.kind # "object" THEN [ok |-> FALSE, domain |-> None]
    ELSE LET salt == StrAt(domain_value, K_salt)
         IN  IF salt.some /\ ~HexOk(TrimStart0x(salt.v)) THEN [ok |-> FALSE, domain |-> None]
             ELSE [ok |-> TRUE,
                   domain |-> Domain(StrAt(domain_value, K_name),
                                     StrAt(domain_value, K_version),
                                     U64At(domain_value, K_chainId),
                                     StrAt(domain_value, K_verifyingContract),
                                     IF salt.some THEN Some(HexDecode(TrimStart0x(salt.v)))
                                     ELSE None)]

\* a member of the array of a type that parse_types accepts
FieldValueOk(field_value) ==
    /\ field_value.kind = "object"
    /\ JsonHas(field_value, K_name) /\ field_value.fields[K_name].kind = "string"
    /\ JsonHas(field_value, K_type) /\ field_value.fields[K_type].kind = "string"

\* Eip712Converter::parse_types
parse_types(types_value) ==
    IF types_value.kind # "object" THEN [ok |-> FALSE, types |-> <<>>]
    ELSE IF \E n \in DOMAIN types_value.fields :
               \/ types_value.fields[n].kind # "array"
               \/ \E i \in 1..Len(types_value.fields[n].items) :
                     ~FieldValueOk(types_value.fields[n].items[i])
    THEN [ok |-> FALSE, types |-> <<>>]
    ELSE [ok |-> TRUE,
          types |-> [n \in DOMAIN types_value.fields |->
                       [i \in 1..Len(types_value.fields[n].items) |->
                          Field(types_value.fields[n].items[i].fields[K_name].str,
                                types_value.fields[n].items[i].fields[K_type].str)]]]

\* a JSON text: whether serde_json::from_str accepts it, and the value it gives
JsonText(wellformed, value) == [wellformed |-> wellformed, value |-> value]

NoTypedData == [ok |-> FALSE, typed_data |-> None]

\* Eip712Converter::parse_json_to_typed_data
parse_json_to_typed_data(json_str) ==
    LET obj == json_str.value IN
    IF ~json_str.wellformed THEN NoTypedData
    ELSE IF obj.kind # "object" THEN NoTypedData
    ELSE IF ~JsonHas(obj, K_domain) THEN NoTypedData
    ELSE IF ~parse_domain(obj.fields[K_domain]).ok THEN NoTypedData
    ELSE IF ~JsonHas(obj, K_types) THEN NoTypedData
    ELSE IF ~parse_types(obj.fields[K_types]).ok THEN NoTypedData
    ELSE IF ~JsonHas(obj, K_primaryType) THEN NoTypedData
    ELSE IF obj.fields[K_primaryType].kind # "string" THEN NoTypedData
    ELSE IF ~JsonHas(obj, K_message) THEN NoTypedData
    ELSE IF obj.fields[K_primaryType].str \notin DOMAIN parse_types(obj.fields[K_types]).types
    THEN NoTypedData
    ELSE [ok |-> TRUE,
          typed_data |-> TypedData(parse_domain(obj.fields[K_domain]).domain,
                                   parse_types(obj.fields[K_types]).types,
                                   obj.fields[K_primaryType].str,
                                   obj.fields[K_message])]

\* SignEip712TypedData::sign_eip712_from_json
sign_eip712_from_json(path, json_str) ==
    IF ~parse_json_to_typed_data(json_str).ok THEN <<StepError("InvalidEip712Data")>>
    ELSE sign_eip712_typed_data(path, parse_json_to_typed_data(json_str).typed_data)

(***************************************************************************)
(* EthereumApp: the version of the app is required before the EIP-712 calls *)
(***************************************************************************)
\* AppVersion::supports_eip712_full
supports_eip712_full_without_patch(major, minor, patch) ==
    \/ major > 1
    \/ major = 1 /\ minor >= 9

\* AppVersion::supports_eip712_v0
supports_eip712_v0(major, minor, patch) ==
    \/ major > 1
    \/ major = 1 /\ minor >= 5

supports_eip712_full(major, minor, patch) ==
    \/ major > 1
    \/ major = 1 /\ minor > 9
    \/ major = 1 /\ minor = 9 /\ patch >= 19

\* parse_get_configuration_response, then the check of the version
RequireEip712Full(data) ==
    IF Len(data) < 4 THEN EthErr("InvalidResponseData", "None", 0)
    ELSE IF ~supports_eip712_full(data[2], data[3], data[4])
    THEN EthErr("UnsupportedVersion", "None", 0)
    ELSE EthSuccess

\* parse_get_configuration_response, then the check of the version for v0
RequireEip712V0(data) ==
    IF Len(data) < 4 THEN EthErr("InvalidResponseData", "None", 0)
    ELSE IF ~supports_eip712_v0(data[2], data[3], data[4])
    THEN EthErr("UnsupportedVersion", "None", 0)
    ELSE EthSuccess

\* GetConfiguration::get_configuration, as EthereumApp::sign_eip712_v0 uses it
get_configuration_v0 ==
    <<StepExchangeParsed(Site("get_config", "get_configuration", "plain", "Transport"),
                         Command("GET_APP_CONFIGURATION", "0x00", "0x00", <<>>),
                         "supports_eip712_v0")>>

\* GetConfiguration::get_configuration, as the EIP-712 calls of EthereumApp use it
get_configuration ==
    <<StepExchangeParsed(Site("get_config", "get_configuration", "plain", "Transport"),
                         Command("GET_APP_CONFIGURATION", "0x00", "0x00", <<>>),
                         "supports_eip712_full")>>

\* EthereumApp::sign_eip712_typed_data
EthereumApp_sign_eip712_typed_data(path, typed_data) ==
    get_configuration \o sign_eip712_typed_data(path, typed_data)

\* EthereumApp::sign_eip712_from_json
EthereumApp_sign_eip712_from_json(path, json_str) ==
    get_configuration \o sign_eip712_from_json(path, json_str)

\* the data a device answers with
SignatureData == {[i \in 1..n |-> i] : n \in {64, 65, 66}}
ConfigurationData ==
    {<<0, 1, 9, 19>>, <<0, 1, 9, 18>>, <<0, 1, 10, 0>>, <<0, 2, 0, 0>>,
     <<0, 0, 255, 255>>, <<0, 1, 9>>, <<3, 1, 9, 19, 7>>,
     <<0, 1, 5, 0>>, <<0, 1, 4, 255>>, <<0, 1, 8, 255>>}

(***************************************************************************)
(* EIP-712 filtering: encode_filter_params, send_filter_config,             *)
(* activate_filtering                                                       *)
(***************************************************************************)
\* Eip712FilterType: the kind and the fields of the kind, the others empty
FilterType(kind, name, count, types, sources, index, signature) ==
    [kind |-> kind, display_name |-> name, filters_count |-> count,
     name_types |-> types, name_sources |-> sources, token_index |-> index,
     signature |-> signature]

Activation == FilterType("Activation", <<>>, 0, <<>>, <<>>, 0, <<>>)
DiscardedFilterPath(path) == FilterType("DiscardedFilterPath", path, 0, <<>>, <<>>, 0, <<>>)
MessageInfo(display_name, filters_count, signature) ==
    FilterType("MessageInfo", display_name, filters_count, <<>>, <<>>, 0, signature)
TrustedName(display_name, name_types, name_sources, signature) ==
    FilterType("TrustedName", display_name, 0, name_types, name_sources, 0, signature)
DateTime(display_name, signature) ==
    FilterType("DateTime", display_name, 0, <<>>, <<>>, 0, signature)
AmountJoinToken(token_index, signature) ==
    FilterType("AmountJoinToken", <<>>, 0, <<>>, <<>>, token_index, signature)
AmountJoinValue(display_name, token_index, signature) ==
    FilterType("AmountJoinValue", display_name, 0, <<>>, <<>>, token_index, signature)
RawField(display_name, signature) ==
    FilterType("RawField", display_name, 0, <<>>, <<>>, 0, signature)

\* Eip712FilterParams
FilterParams(filter_type, discarded) ==
    [filter_type |-> filter_type, discarded |-> discarded]

\* data.push(bytes.len() as u8); data.extend_from_slice(bytes)
Prefixed(bytes) == <<AsU8(Len(bytes))>> \o bytes

encode_filter_params_standard_only(filter_params) ==
    LET t == filter_params.filter_type
    IN  [p1 |-> "STANDARD",
         p2 |-> t.kind,
         data |-> IF t.kind = "Activation" THEN <<>>
                  ELSE Prefixed(t.display_name) \o Prefixed(t.signature)]

\* encoding::encode_filter_params
encode_filter_params(filter_params) ==
    LET t == filter_params.filter_type
    IN  [p1 |-> IF filter_params.discarded THEN "DISCARDED" ELSE "STANDARD",
         p2 |-> CASE t.kind = "Activation" -> "ACTIVATION"
                  [] t.kind = "DiscardedFilterPath" -> "DISCARDED_FILTER_PATH"
                  [] t.kind = "MessageInfo" -> "MESSAGE_INFO"
                  [] t.kind = "TrustedName" -> "TRUSTED_NAME"
                  [] t.kind = "DateTime" -> "DATE_TIME"
                  [] t.kind = "AmountJoinToken" -> "AMOUNT_JOIN_TOKEN"
                  [] t.kind = "AmountJoinValue" -> "AMOUNT_JOIN_VALUE"
                  [] t.kind = "RawField" -> "RAW_FIELD",
         data |-> CASE t.kind = "Activation" -> <<>>
                    [] t.kind = "DiscardedFilterPath" -> Prefixed(t.display_name)
                    [] t.kind = "MessageInfo" ->
                          Prefixed(t.display_name) \o <<t.filters_count>>
                          \o Prefixed(t.signature)
                    [] t.kind = "TrustedName" ->
                          Prefixed(t.display_name) \o Prefixed(t.name_types)
                          \o Prefixed(t.name_sources) \o Prefixed(t.signature)
                    [] t.kind = "DateTime" ->
                          Prefixed(t.display_name) \o Prefixed(t.signature)
                    [] t.kind = "AmountJoinToken" ->
                          <<t.token_index>> \o Prefixed(t.signature)
                    [] t.kind = "AmountJoinValue" ->
                          Prefixed(t.display_name) \o <<t.token_index>>
                          \o Prefixed(t.signature)
                    [] t.kind = "RawField" ->
                          Prefixed(t.display_name) \o Prefixed(t.signature)]

\* Eip712Filtering::send_filter_config
send_filter_config(filter_params) ==
    LET encoded == encode_filter_params(filter_params)
    IN  <<StepExchange(Site("filtering", "filter_config", "plain", "Transport"),
                       Command("EIP712_FILTERING", encoded.p1, encoded.p2, encoded.data))>>

\* Eip712Filtering::activate_filtering
activate_filtering ==
    <<StepExchange(Site("filtering", "activation", "plain", "Transport"),
                   Command("EIP712_FILTERING", "STANDARD", "ACTIVATION", <<>>))>>

(***************************************************************************)
(* EthereumApp: the EIP-712 methods behind the check of the app version     *)
(***************************************************************************)
\* SignEip712Params
SignEip712Params(path, domain_hash, message_hash) ==
    [path |-> path, domain_hash |-> domain_hash, message_hash |-> message_hash]

\* SignEip712V0::sign_eip712_v0: the hashes are [u8; 32], so the checks of
\* their sizes pass
sign_eip712_v0(params) ==
    IF ~validate_bip32_path(params.path) THEN <<StepError("InvalidBip32Path")>>
    ELSE <<StepExchangeParsed(Site("eip712_signing", "v0", "plain", "Transport"),
                              Command("SIGN_ETH_EIP712", "FIRST_CHUNK", "V0_IMPLEMENTATION",
                                      encode_bip32_path(params.path) \o params.domain_hash
                                      \o params.message_hash),
                              "parse_signature_response")>>

\* Eip712StructImpl::set_array_size
set_array_size(size) ==
    <<StepExchange(Site("struct_implementation", "array_size", "plain", "Transport"),
                   Command("EIP712_SEND_STRUCT_IMPLEMENTATION", "PARTIAL_SEND", "ARRAY",
                           <<size>>))>>

EthereumApp_sign_eip712_v0(params) == get_configuration_v0 \o sign_eip712_v0(params)
EthereumApp_sign_eip712_full(path) == get_configuration \o sign_eip712_full(path)
EthereumApp_send_struct_definition(struct_def) ==
    get_configuration \o send_struct_definition(struct_def)
EthereumApp_send_struct_implementation(struct_impl) ==
    get_configuration \o send_struct_implementation(struct_impl)
EthereumApp_set_array_size(size) == get_configuration \o set_array_size(size)
EthereumApp_send_filter_config(filter_params) ==
    get_configuration \o send_filter_config(filter_params)
EthereumApp_activate_filtering == get_configuration \o activate_filtering

(***************************************************************************)
(* sign_personal_message                                                   *)
(***************************************************************************)
MAX_MESSAGE_CHUNK_SIZE == 255
SIGN_ETH_PERSONAL_MESSAGE == 8
FIRST_DATA_BLOCK == 0
SUBSEQUENT_DATA_BLOCK == 128

\* utils::chunk_data
chunk_data_one_chunk(data, chunk_size) == IF data = <<>> THEN <<>> ELSE <<data>>

chunk_data(data, chunk_size) ==
    IF chunk_size = 0 THEN <<data>>
    ELSE [i \in 1..CeilDiv(Len(data), chunk_size) |->
             SubSeq(data, (i - 1) * chunk_size + 1, Min(i * chunk_size, Len(data)))]

\* (params.message.len() as u32).to_be_bytes()
LengthBytes(n) ==
    <<(n \div 16777216) % 256, (n \div 65536) % 256, (n \div 256) % 256, n % 256>>

\* sign_personal_message: the first frame is checked with
\* handle_response_error, every later one with handle_response_error_signature;
\* the data of the last response is parsed
sign_personal_message(path, message) ==
    IF ~validate_bip32_path(path) THEN <<StepError("InvalidBip32Path")>>
    ELSE IF message = <<>> THEN <<StepError("InvalidMessage")>>
    ELSE IF Len(encode_bip32_path(path)) + 4 >= MAX_MESSAGE_CHUNK_SIZE
    THEN <<StepError("InvalidBip32Path")>>
    ELSE LET path_data == encode_bip32_path(path)
             first_chunk_message_size == MAX_MESSAGE_CHUNK_SIZE - (Len(path_data) + 4)
             first_message_chunk ==
                 SubSeq(message, 1, Min(Len(message), first_chunk_message_size))
             remaining_message ==
                 SubSeq(message, first_chunk_message_size + 1, Len(message))
             remaining_chunks == chunk_data(remaining_message, MAX_MESSAGE_CHUNK_SIZE)
             first_command ==
                 Command(SIGN_ETH_PERSONAL_MESSAGE, FIRST_DATA_BLOCK, 0,
                         path_data \o LengthBytes(Len(message)) \o first_message_chunk)
             first == Site("personal_message", "first", "plain", "Transport")
             subsequent == Site("personal_message", "subsequent", "signature", "Transport")
         IN  <<IF remaining_chunks = <<>>
               THEN StepExchangeParsed(first, first_command, "parse_signature_response")
               ELSE StepExchange(first, first_command)>>
             \o [i \in 1..Len(remaining_chunks) |->
                   LET command == Command(SIGN_ETH_PERSONAL_MESSAGE, SUBSEQUENT_DATA_BLOCK,
                                          0, remaining_chunks[i])
                   IN  IF i = Len(remaining_chunks)
                       THEN StepExchangeParsed(subsequent, command,
                                               "parse_signature_response")
                       ELSE StepExchange(subsequent, command)]

(***************************************************************************)
(* The calls of the EIP-712 command families, one exchange at a time        *)
(***************************************************************************)
\*-- steps of the calls above this line

\* the steps of a call, in the order the code takes them
Steps(call) ==
    CASE call.fn = "send_struct_definition" -> send_struct_definition(call.struct_def)
      [] call.fn = "send_struct_implementation" ->
            send_struct_implementation(call.struct_impl)
      [] call.fn = "sign_eip712_typed_data" ->
            sign_eip712_typed_data(call.path, call.typed_data)
      [] call.fn = "sign_eip712_from_json" ->
            sign_eip712_from_json(call.path, call.json_str)
      [] call.fn = "EthereumApp::sign_eip712_typed_data" ->
            EthereumApp_sign_eip712_typed_data(call.path, call.typed_data)
      [] call.fn = "EthereumApp::sign_eip712_from_json" ->
            EthereumApp_sign_eip712_from_json(call.path, call.json_str)
      [] call.fn = "send_filter_config" -> send_filter_config(call.filter_params)
      [] call.fn = "EthereumApp::sign_eip712_v0" -> EthereumApp_sign_eip712_v0(call.params)
      [] call.fn = "EthereumApp::sign_eip712_full" -> EthereumApp_sign_eip712_full(call.path)
      [] call.fn = "EthereumApp::send_struct_definition" ->
            EthereumApp_send_struct_definition(call.struct_def)
      [] call.fn = "EthereumApp::send_struct_implementation" ->
            EthereumApp_send_struct_implementation(call.struct_impl)
      [] call.fn = "EthereumApp::set_array_size" -> EthereumApp_set_array_size(call.size)
      [] call.fn = "EthereumApp::send_filter_config" ->
            EthereumApp_send_filter_config(call.filter_params)
      [] call.fn = "EthereumApp::activate_filtering" -> EthereumApp_activate_filtering
      [] call.fn = "activate_filtering" -> activate_filtering
      [] call.fn = "sign_personal_message" ->
            sign_personal_message(call.path, call.message)
      [] OTHER -> <<>>

\* what the transport can return for a step: the outcomes of any exchange
\* and, where the code parses the data, answers with data of several lengths
ResponsesAt(step) ==
    Outcomes \cup
    (CASE step.parse = "parse_signature_response" ->
              [kind : {"answer"}, sw : {SW_NO_ERROR}, data : SignatureData]
       [] step.parse \in {"supports_eip712_full", "supports_eip712_v0"} ->
              [kind : {"answer"}, sw : {SW_NO_ERROR}, data : ConfigurationData]
       [] OTHER -> {})

\* what the code makes of the data of a response whose status it accepted
ParsedResponse(step, r) ==
    CASE step.parse = "parse_signature_response" -> parse_signature_response(r.data)
      [] step.parse = "supports_eip712_full" -> RequireEip712Full(r.data)
      [] step.parse = "supports_eip712_v0" -> RequireEip712V0(r.data)
      [] OTHER -> EthSuccess

IsErr_transport_only(result) ==
    result.kind = "Transport" /\ result.inner = "TransportError"

\* the `?` after an exchange returns from the call with the error
IsErr(result) == result.kind \notin {"Success", "Signature"}

\* transport.exchange(&command).await.map_err(..)?, then the check of the
\* response with its map_err(..)? and the parse of its data; after the last
\* step the call returns
FlowExchange ==
    /\ e_pc = "run"
    /\ \E steps \in {Steps(e_call)} :
          /\ e_idx <= Len(steps)
          /\ \E step \in {steps[e_idx]} :
                /\ step.kind = "exchange"
                /\ \E r \in ResponsesAt(step) :
                      \E result \in {IF IsErr(SiteResult(step.site, r))
                                      THEN SiteResult(step.site, r)
                                      ELSE ParsedResponse(step, r)} :
                         /\ e_wire' = Append(e_wire, step.command)
                         /\ e_answers' = Append(e_answers, OutcomeTag(r))
                         /\ e_response' = r
                         /\ IF IsErr(result) \/ e_idx = Len(steps)
                            THEN /\ e_pc' = "done"
                                 /\ e_result' = result
                                 /\ UNCHANGED e_idx
                            ELSE /\ e_idx' = e_idx + 1
                                 /\ UNCHANGED <<e_pc, e_result>>
    /\ UNCHANGED e_call
    /\ UNCHANGED e_Others

\* a conversion or validation of the call returns an error: the call returns it
FlowError ==
    /\ e_pc = "run"
    /\ \E steps \in {Steps(e_call)} :
          /\ e_idx <= Len(steps)
          /\ steps[e_idx].kind = "error"
          /\ e_pc' = "done"
          /\ e_result' = EthErr(steps[e_idx].err, "None", 0)
    /\ UNCHANGED <<e_call, e_idx, e_wire, e_answers, e_response>>
    /\ UNCHANGED e_Others

\* the state in which a call starts
CallStarts(calls) ==
    /\ e_pc = "run"
    /\ e_call \in calls
    /\ e_idx = 1
    /\ e_wire = <<>>
    /\ e_answers = <<>>
    /\ e_response = [kind |-> "none", sw |-> 0, data |-> <<>>]
    /\ e_result = NoEthResult

(***************************************************************************)
(* send_struct_definition                                                  *)
(***************************************************************************)
\* a field with n dynamic array levels
DeepArray(n) == [i \in 1..n |-> LevelDynamic]

FieldTypes ==
    {TypeCustom(S_Person), TypeCustom(BytePattern(255, 0)), TypeSized("Int", 1),
     TypeSized("Uint", 32), TypePlain("Address"), TypePlain("Bool"), TypePlain("String"),
     TypeSized("FixedBytes", 32), TypePlain("DynamicBytes")}

FieldLevels ==
    {<<>>, <<LevelDynamic>>, <<LevelFixed(3), LevelDynamic>>, DeepArray(255), DeepArray(256)}

FieldNames == {S_amount, S_a, BytePattern(255, 1), BytePattern(256, 1)}

\* the fields of the structs of several fields
FieldPool ==
    {FieldDefinition(TypeSized("Uint", 32), S_amount, <<>>),
     FieldDefinition(TypePlain("Address"), S_to, <<>>),
     FieldDefinition(TypeCustom(S_Person), S_a, <<LevelDynamic>>)}

\* the structs of one field, and those of up to MaxFields fields of the pool
StructDefinitions ==
    {StructDefinition(S_Mail, <<FieldDefinition(t, n, l)>>) :
        t \in FieldTypes, n \in FieldNames, l \in FieldLevels}
    \cup
    UNION {{StructDefinition(S_Asset, fields) : fields \in [1..k -> FieldPool]} :
             k \in 0..MaxFields}

sd_Calls == {[fn |-> "send_struct_definition", struct_def |-> d] : d \in StructDefinitions}

sd_Init == CallStarts(sd_Calls)

sd_Next == FlowExchange

InitStructDef == sd_Init /\ sc_Idle /\ h_Idle /\ x_Idle /\ st_Idle

SpecStructDef == InitStructDef /\ [][sd_Next]_vars

\* the field definition exchanges that have been made, with the field of each
SentFields ==
    {[field |-> e_call.struct_def.fields[i], data |-> e_wire[i + 1].data] :
        i \in 1..(Len(e_wire) - 1)}

\* the type ids of the field-definition format
FormatTypeIds ==
    [Custom |-> 0, Int |-> 1, Uint |-> 2, Address |-> 3, Bool |-> 4, String |-> 5,
     FixedBytes |-> 6, DynamicBytes |-> 7]

\* data is the field-definition format of field, read byte after byte
FieldLayout(field, data) ==
    LET t == field.field_type
        custom == t.kind = "Custom"
        sized == t.kind \in {"Int", "Uint", "FixedBytes"}
        array == Len(field.array_levels) > 0
        levels == Flatten([i \in 1..Len(field.array_levels) |->
                              IF field.array_levels[i].kind = "Fixed"
                              THEN <<1, field.array_levels[i].size>> ELSE <<0>>])
        at_size == IF custom THEN 3 + Len(t.name) ELSE 2
        at_levels == IF sized THEN at_size + 1 ELSE at_size
        at_name == IF array THEN at_levels + 1 + Len(levels) ELSE at_levels
    IN  /\ Len(data) = at_name + Len(field.name)
        /\ data[1] % 64 = FormatTypeIds[t.kind]
        /\ (data[1] \div 128 = 1) <=> array
        /\ ((data[1] \div 64) % 2 = 1) <=> sized
        /\ custom => /\ data[2] = Len(t.name)
                     /\ SubSeq(data, 3, 2 + Len(t.name)) = t.name
        /\ sized => data[at_size] = t.size
        /\ array => /\ data[at_levels] = Len(field.array_levels)
                    /\ SubSeq(data, at_levels + 1, at_levels + Len(levels)) = levels
        /\ data[at_name] = Len(field.name)
        /\ SubSeq(data, at_name + 1, Len(data)) = field.name

ShortNames(field) == Len(field.name) < 256 /\ Len(field.field_type.name) < 256

\* C12 as stated: every field definition with names shorter than 256 bytes is
\* encoded as descriptor byte, custom type name, byte-width, array levels (count
\* and levels), field name
C12_FieldDefinitionFormat ==
    \A sent \in SentFields :
        ShortNames(sent.field) => FieldLayout(sent.field, sent.data)

\* C12: every field definition with names shorter than 256 bytes and fewer than
\* 256 array levels is encoded as: the descriptor byte (type id, 0x80 iff array,
\* 0x40 iff the type has a byte-width), the custom type name with its length iff
\* custom, the byte-width iff it has one, the count of array levels and each
\* level iff array, the field name with its length; uint256 "amount" is
\* 0x42 0x20 0x06 "amount"
C12_FieldDefinitionFormatUpTo255Levels ==
    \A sent \in SentFields :
        /\ (ShortNames(sent.field) /\ Len(sent.field.array_levels) < 256) =>
              FieldLayout(sent.field, sent.data)
        /\ sent.field = FieldDefinition(TypeSized("Uint", 32), S_amount, <<>>) =>
              sent.data = <<66, 32, 6>> \o S_amount

C12_Witness ==
    /\ Len(e_wire) = 3
    /\ e_call.struct_def.fields[1] = FieldDefinition(TypeSized("Uint", 32), S_amount, <<>>)
    /\ e_call.struct_def.fields[2] = FieldDefinition(TypeCustom(S_Person), S_a, <<LevelDynamic>>)
    /\ e_wire[3].data = <<128, 6>> \o S_Person \o <<1, 0, 1>> \o S_a

\* C13: send_struct_definition makes the struct-name exchange with the name
\* bytes, then one field-definition exchange per field in field order, n + 1
\* exchanges when all succeed; after a failed exchange nothing more is sent and
\* the error is returned
C13_StructDefinitionExchanges ==
    LET def == e_call.struct_def
        n == Len(def.fields)
    IN  /\ Len(e_wire) <= n + 1
        /\ Len(e_answers) = Len(e_wire)
        /\ \A i \in 1..Len(e_wire) :
              /\ e_wire[i].ins = "EIP712_SEND_STRUCT_DEFINITION"
              /\ IF i = 1
                 THEN e_wire[i].p2 = "STRUCT_NAME" /\ e_wire[i].data = def.name
                 ELSE /\ e_wire[i].p2 = "STRUCT_FIELD"
                      /\ e_wire[i].data = encode_field_definition(def.fields[i - 1])
              /\ i < Len(e_wire) => e_answers[i] = 36864
        /\ (e_pc = "done" /\ e_result.kind = "Success") <=>
              (Len(e_wire) = n + 1 /\ \A i \in 1..(n + 1) : e_answers[i] = 36864)
        /\ (Len(e_wire) > 0 /\ e_answers[Len(e_wire)] # 36864) =>
              (e_pc = "done" /\ e_result.kind # "Success")
        /\ e_pc = "run" => e_idx = Len(e_wire) + 1

C13_Witness ==
    /\ e_pc = "done"
    /\ e_result.kind = "Success"
    /\ Len(e_wire) = 3
    /\ e_call.struct_def.fields[1] # e_call.struct_def.fields[2]

(***************************************************************************)
(* send_struct_implementation                                              *)
(***************************************************************************)
\* the lengths of the values sent alone: around one and two frames, and the
\* first length that does not fit two bytes
ValueLens == {0, 1, 20, 252, 253, 254, 508, 509, 65536}

\* the values of the implementations of several values
ValuePool == {<<>>, <<1>>, BytePattern(254, 3)}

StructImplementations ==
    {StructImplementation(S_Mail, <<BytePattern(len, 0)>>) : len \in ValueLens}
    \cup
    UNION {{StructImplementation(S_Asset, values) : values \in [1..k -> ValuePool]} :
             k \in 0..MaxFields}

si_Calls ==
    {[fn |-> "send_struct_implementation", struct_impl |-> i] : i \in StructImplementations}

si_Init == CallStarts(si_Calls)

si_Next == FlowExchange

InitStructImpl == si_Init /\ sc_Idle /\ h_Idle /\ x_Idle /\ st_Idle

SpecStructImpl == InitStructImpl /\ [][si_Next]_vars

\* the number of frames of a value of len bytes
FrameCount(len) == CeilDiv(len + 2, 255)

\* the exchanges made before the first frame of the value j
RECURSIVE FramesBefore(_, _)
FramesBefore(values, j) ==
    IF j = 1 THEN 1 ELSE FramesBefore(values, j - 1) + FrameCount(Len(values[j - 1]))

\* the frames of the value j that have been sent
FramesOf(j) ==
    LET from == FramesBefore(e_call.struct_impl.values, j)
        upto == Min(from + FrameCount(Len(e_call.struct_impl.values[j])), Len(e_wire))
    IN  SubSeq(e_wire, from + 1, upto)

\* the value j has been sent whole
SentWhole(j) ==
    Len(e_wire) >= FramesBefore(e_call.struct_impl.values, j)
                    + FrameCount(Len(e_call.struct_impl.values[j]))

\* the root-struct exchange comes first, every value is framed in list order
\* in frames of at most 255 bytes, partial-send but for the last of the value
ImplementationFraming ==
    LET values == e_call.struct_impl.values
    IN  /\ Len(e_wire) <= FramesBefore(values, Len(values) + 1)
        /\ Len(e_wire) >= 1 =>
              /\ e_wire[1].p2 = "ROOT_STRUCT"
              /\ e_wire[1].data = e_call.struct_impl.name
        /\ (e_pc = "done" /\ e_result.kind = "Success") =>
              Len(e_wire) = FramesBefore(values, Len(values) + 1)
        /\ \A j \in 1..Len(values) :
              LET frames == FramesOf(j)
                  count == FrameCount(Len(values[j]))
              IN  \A k \in 1..Len(frames) :
                     /\ frames[k].p2 = "STRUCT_FIELD"
                     /\ Len(frames[k].data) <= 255
                     /\ frames[k].p1 = IF k = count THEN "COMPLETE_SEND" ELSE "PARTIAL_SEND"

\* C14 as stated: the frames of every value are the 2-byte big-endian length of
\* the value followed by its bytes
C14_ValueFrames ==
    /\ ImplementationFraming
    /\ \A j \in 1..Len(e_call.struct_impl.values) :
          LET value == e_call.struct_impl.values[j]
              frames == FramesOf(j)
              sent == Flatten([k \in 1..Len(frames) |-> frames[k].data])
          IN  /\ Len(frames) >= 1 => sent[1] * 256 + sent[2] = Len(value)
              /\ SentWhole(j) => sent = <<sent[1], sent[2]>> \o value

\* C14: send_struct_implementation sends the root-struct exchange with the
\* name, then for each value in list order ceil((len + 2) / 255) frames of at
\* most 255 bytes, partial-send but for the last, complete-send; the frames of
\* a value shorter than 65536 bytes concatenate to its 2-byte big-endian length
\* followed by its bytes
C14_ValueFramesUpTo65535Bytes ==
    /\ ImplementationFraming
    /\ \A j \in 1..Len(e_call.struct_impl.values) :
          LET value == e_call.struct_impl.values[j]
              frames == FramesOf(j)
              sent == Flatten([k \in 1..Len(frames) |-> frames[k].data])
          IN  /\ (Len(frames) >= 1 /\ Len(value) < 65536) =>
                    sent[1] * 256 + sent[2] = Len(value)
              /\ SentWhole(j) => sent = <<sent[1], sent[2]>> \o value

C14_Witness ==
    /\ e_pc = "done"
    /\ e_result.kind = "Success"
    /\ Len(e_call.struct_impl.values) = 2
    /\ e_call.struct_impl.values[1] = BytePattern(254, 3)
    /\ e_call.struct_impl.values[2] = <<>>
    /\ Len(e_wire) = 4
    /\ e_wire[2].p1 = "PARTIAL_SEND"
    /\ e_wire[3].data = <<BytePattern(254, 3)[254]>>
    /\ e_wire[4].data = <<0, 0>>


(***************************************************************************)
(* sign_eip712_typed_data, sign_eip712_from_json                            *)
(***************************************************************************)
S_T == <<84>>
S_1 == <<49>>
S_uint256 == <<117, 105, 110, 116, 50, 53, 54>>
S_uint8 == <<117, 105, 110, 116, 56>>
S_uint7 == <<117, 105, 110, 116, 55>>
S_300 == <<51, 48, 48>>
\* "0x" and forty hexadecimal digits
AddressText == S_0x \o [i \in 1..40 |-> IF i % 2 = 1 THEN 97 ELSE 98]
\* "0x1234"
ShortAddressText == S_0x \o <<49, 50, 51, 52>>
\* a text of n bytes
LongText(n) == [i \in 1..n |-> 84]

\* paths: the standard one, an empty one, one of eleven indices, and one
\* whose account is not hardened
ty_Paths ==
    {StandardPath, <<>>, [i \in 1..(MAX_BIP32_PATH_DEPTH + 1) |-> PathIndex(TRUE, i)],
     <<PathIndex(TRUE, 44), PathIndex(TRUE, 60), PathIndex(FALSE, 0)>>}

\* the fields of the EIP712Domain type of the documents
DomainFields ==
    <<Field(K_name, S_string), Field(K_version, S_string),
      Field(K_chainId, S_uint256), Field(K_verifyingContract, S_address)>>

\* a document with that domain type and one custom type of one field
MinimalDocument(domain_name, contract, primary_type, field_type, value) ==
    TypedData(Domain(Some(domain_name), Some(S_1), Some(<<1>>), Some(contract), None),
              (S_EIP712Domain :> DomainFields) @@ (primary_type :> <<Field(S_to, field_type)>>),
              primary_type,
              JsonObject(S_to :> value))

\* documents of several types, with and without the domain type
PersonFields == <<Field(S_a, S_bool)>>
SeveralTypes ==
    (S_Person :> PersonFields) @@ (S_Mail :> <<Field(S_to, S_address), Field(S_amount, S_uint8)>>)
    @@ (S_Asset :> <<Field(S_a, S_Person)>>)
SeveralMessage(amount) ==
    JsonObject((S_to :> JsonString(AddressText)) @@ (S_amount :> amount))

TypedDocuments ==
    {MinimalDocument(name, contract, primary_type, S_address, JsonString(address)) :
        name \in {S_T, LongText(254)}, contract \in {AddressText, ShortAddressText},
        primary_type \in {S_Mail, S_Asset}, address \in {AddressText, ShortAddressText}}
    \cup {MinimalDocument(S_T, AddressText, S_Mail, S_uint8, value) :
            value \in {JsonNumber(255), JsonNumber(256), JsonString(S_300), JsonBool(TRUE)}}
    \cup {MinimalDocument(S_T, AddressText, S_Mail, S_uint7, JsonNumber(1))}
    \cup {TypedData(Domain(None, None, None, None, None), SeveralTypes, S_Mail,
                    SeveralMessage(amount)) : amount \in {JsonNumber(7), JsonNumber(256)}}
    \cup {TypedData(Domain(Some(S_T), None, None, None, None),
                    SeveralTypes @@ (S_EIP712Domain :> <<Field(K_name, S_string)>>), S_Mail,
                    SeveralMessage(JsonNumber(7))),
          TypedData(Domain(None, None, None, None, None), SeveralTypes, S_T,
                    SeveralMessage(JsonNumber(7))),
          TypedData(Domain(None, None, None, None, None), SeveralTypes, S_Mail,
                    JsonObject(S_to :> JsonString(AddressText)))}

\* the JSON document of a typed-data document
FieldsJson(fields) ==
    JsonArray([i \in 1..Len(fields) |->
        JsonObject((K_name :> JsonString(fields[i].name))
                   @@ (K_type :> JsonString(fields[i].type)))])
DocumentJson(contract, primary_type, address) ==
    (K_domain :> JsonObject((K_name :> JsonString(S_T)) @@ (K_version :> JsonString(S_1))
                            @@ (K_chainId :> JsonNumber(1))
                            @@ (K_verifyingContract :> JsonString(contract))))
    @@ (K_types :> JsonObject((S_EIP712Domain :> FieldsJson(DomainFields))
                              @@ (S_Mail :> FieldsJson(<<Field(S_to, S_address)>>))))
    @@ (K_primaryType :> JsonString(primary_type))
    @@ (K_message :> JsonObject(S_to :> JsonString(address)))

\* a function without one of its arguments
Without(f, key) == [k \in DOMAIN f \ {key} |-> f[k]]

RequiredKeys == {K_domain, K_types, K_primaryType, K_message}

\* JSON texts: complete documents, a text that is not JSON, values that are
\* not objects, documents without a key, with a member of the wrong kind,
\* and with a primary type that the types do not have
JsonTexts ==
    {JsonText(TRUE, JsonObject(DocumentJson(contract, S_Mail, address))) :
        contract \in {AddressText, ShortAddressText},
        address \in {AddressText, ShortAddressText}}
    \cup {JsonText(FALSE, JsonNull), JsonText(TRUE, JsonArray(<<>>)), JsonText(TRUE, JsonNull),
          JsonText(TRUE, JsonObject(DocumentJson(AddressText, S_Asset, AddressText)))}
    \cup {JsonText(TRUE, JsonObject(Without(DocumentJson(AddressText, S_Mail, AddressText), key))) :
            key \in RequiredKeys}
    \cup {JsonText(TRUE, JsonObject([DocumentJson(AddressText, S_Mail, AddressText)
                                       EXCEPT ![key] = JsonNumber(1)])) :
            key \in RequiredKeys}

ty_Calls ==
    [fn : {"sign_eip712_typed_data"}, path : ty_Paths, typed_data : TypedDocuments]
    \cup [fn : {"EthereumApp::sign_eip712_typed_data"}, path : {StandardPath},
          typed_data : {MinimalDocument(S_T, AddressText, S_Mail, S_address,
                                        JsonString(AddressText))}]
    \cup [fn : {"sign_eip712_from_json", "EthereumApp::sign_eip712_from_json"},
          path : {StandardPath, <<>>}, json_str : JsonTexts]

ty_Init == CallStarts(ty_Calls)

ty_Next == FlowExchange \/ FlowError

InitTyped == ty_Init /\ sc_Idle /\ h_Idle /\ x_Idle /\ st_Idle

SpecTyped == InitTyped /\ [][ty_Next]_vars



\* the exchanges so far all returned the success status
AllSucceeded == \A i \in 1..Len(e_answers) : e_answers[i] = SW_NO_ERROR

\* a document with the four domain members, an EIP712Domain type declaring
\* them and one custom primary type with one address field, signed with a
\* valid path
MinimalCall ==
    /\ e_call.fn = "sign_eip712_typed_data"
    /\ validate_bip32_path(e_call.path)
    /\ LET data == e_call.typed_data IN
        /\ data.domain.name.some /\ data.domain.version.some
        /\ data.domain.chain_id.some /\ data.domain.verifying_contract.some
        /\ from_address_string(data.domain.verifying_contract.v).ok
        /\ data.primary_type # S_EIP712Domain
        /\ DOMAIN data.types = {S_EIP712Domain, data.primary_type}
        /\ Len(data.types[S_EIP712Domain]) = 4
        /\ {data.types[S_EIP712Domain][i].name : i \in 1..4}
              = {K_name, K_version, K_chainId, K_verifyingContract}
        /\ \A i \in 1..4 : parse_field_type(data.types[S_EIP712Domain][i].type).ok
        /\ Len(data.types[data.primary_type]) = 1
        /\ data.types[data.primary_type][1].type = S_address
        /\ JsonHas(data.message, data.types[data.primary_type][1].name)
        /\ convert_value_to_field_value(
               data.message.fields[data.types[data.primary_type][1].name],
               TypePlain("Address")).ok

\* the data of the field definition exchange of a declared field
DeclaredField(field) ==
    encode_field_definition(
        FieldDefinition(parse_field_type(field.type).field_type, field.name, <<>>))

\* the data of the exchange of a value that fits one exchange
WholeValue(bytes) == <<Len(bytes) \div 256, Len(bytes) % 256>> \o bytes

\* the exchanges of the scenario, in its order
ScenarioExchanges ==
    LET data == e_call.typed_data
        primary == data.primary_type
        definition == "EIP712_SEND_STRUCT_DEFINITION"
        implementation == "EIP712_SEND_STRUCT_IMPLEMENTATION"
    IN  <<Command(definition, "0x00", "STRUCT_NAME", S_EIP712Domain)>>
        \o [i \in 1..4 |-> Command(definition, "0x00", "STRUCT_FIELD",
                                   DeclaredField(data.types[S_EIP712Domain][i]))]
        \o <<Command(definition, "0x00", "STRUCT_NAME", primary),
             Command(definition, "0x00", "STRUCT_FIELD", DeclaredField(data.types[primary][1])),
             Command(implementation, "COMPLETE_SEND", "ROOT_STRUCT", S_EIP712Domain),
             Command(implementation, "COMPLETE_SEND", "STRUCT_FIELD",
                     WholeValue(data.domain.name.v)),
             Command(implementation, "COMPLETE_SEND", "STRUCT_FIELD",
                     WholeValue(data.domain.version.v)),
             Command(implementation, "COMPLETE_SEND", "STRUCT_FIELD",
                     WholeValue(parse_uint_to_min_be(JsonInteger(FALSE, data.domain.chain_id.v), 32).bytes)),
             Command(implementation, "COMPLETE_SEND", "STRUCT_FIELD",
                     WholeValue(from_address_string(data.domain.verifying_contract.v).bytes)),
             Command(implementation, "COMPLETE_SEND", "ROOT_STRUCT", primary),
             Command(implementation, "COMPLETE_SEND", "STRUCT_FIELD",
                     WholeValue(from_address_string(
                         data.message.fields[data.types[primary][1].name].str).bytes)),
             Command("SIGN_ETH_EIP712", "FIRST_CHUNK", "FULL_IMPLEMENTATION",
                     encode_bip32_path(e_call.path))>>

\* the exchanges made are the first of the scenario, and they are `total`
\* when the call has ended with every exchange successful
ScenarioFollowed(total) ==
    /\ Len(e_wire) <= Len(ScenarioExchanges)
    /\ e_wire = SubSeq(ScenarioExchanges, 1, Len(e_wire))
    /\ (e_pc = "done" /\ AllSucceeded) => Len(e_wire) = total

\* C15, as stated: signing a document with the four domain members, an
\* EIP712Domain type declaring them and a single custom primary type with one
\* address field makes, when every exchange succeeds, exactly fourteen
\* exchanges: domain type name, four domain field definitions in declared
\* order, message type name, message field definition, domain root struct,
\* four domain values, message root struct, message value, signing.
C15_FourteenExchanges == MinimalCall => ScenarioFollowed(14)

\* C15, with what the code does: the exchanges listed are fifteen, and they
\* are made in that order for a primary type whose name sorts after
\* "EIP712Domain" and a domain name and version of at most 253 bytes each.
C15_FifteenExchangesDomainFirst ==
    (/\ MinimalCall
     /\ StrLess(S_EIP712Domain, e_call.typed_data.primary_type)
     /\ Len(e_call.typed_data.domain.name.v) <= APDU_MAX_PAYLOAD - 2
     /\ Len(e_call.typed_data.domain.version.v) <= APDU_MAX_PAYLOAD - 2)
    => ScenarioFollowed(15)

C15_Witness ==
    /\ MinimalCall
    /\ StrLess(S_EIP712Domain, e_call.typed_data.primary_type)
    /\ Len(e_call.typed_data.domain.name.v) <= APDU_MAX_PAYLOAD - 2
    /\ e_pc = "done"
    /\ AllSucceeded
    /\ Len(e_wire) = 15
    /\ e_result.kind = "Signature"


\* the exchanges of the wire that send the name of a struct definition, that
\* open a struct implementation, and that ask for the signature
IsDefinition(i) == e_wire[i].ins = "EIP712_SEND_STRUCT_DEFINITION"
IsDefinitionName(i) == IsDefinition(i) /\ e_wire[i].p2 = "STRUCT_NAME"
IsImplementation(i) == e_wire[i].ins = "EIP712_SEND_STRUCT_IMPLEMENTATION"
IsRootStruct(i) == IsImplementation(i) /\ e_wire[i].p2 = "ROOT_STRUCT"
IsSigning(i) == e_wire[i].ins = "SIGN_ETH_EIP712"

\* the root-struct exchanges among the first i exchanges
RootsUpTo(i) == {k \in 1..i : IsRootStruct(k)}

DomainDefined == S_EIP712Domain \in DOMAIN e_call.typed_data.types

\* the phase of an exchange: 1 struct definitions, 2 implementation of
\* EIP712Domain, 3 implementation of the primary type, 4 signing
Phase(i) ==
    IF IsDefinition(i) THEN 1
    ELSE IF IsImplementation(i)
    THEN (IF DomainDefined /\ Cardinality(RootsUpTo(i)) <= 1 THEN 2 ELSE 3)
    ELSE 4

\* C16: in sign_eip712_typed_data the struct definitions are sent in
\* ascending order of struct name, all of them before any implementation;
\* the phases (definitions, EIP712Domain implementation when that type is
\* defined, primary-type implementation, signing) never go back; and there
\* is one signing exchange, the last exchange of the call.
C16_PhasesInOrder ==
    e_call.fn = "sign_eip712_typed_data" =>
        /\ \A i, j \in 1..Len(e_wire) :
              (i < j /\ IsDefinitionName(i) /\ IsDefinitionName(j))
                  => StrLess(e_wire[i].data, e_wire[j].data)
        /\ \A i, j \in 1..Len(e_wire) : i < j => Phase(i) <= Phase(j)
        /\ \A i \in 1..Len(e_wire) :
              /\ IsDefinition(i) \/ IsImplementation(i) \/ IsSigning(i)
              /\ IsDefinitionName(i) => e_wire[i].data \in DOMAIN e_call.typed_data.types
              /\ IsImplementation(i) =>
                    {e_wire[k].data : k \in {n \in 1..i : IsDefinitionName(n)}}
                        = DOMAIN e_call.typed_data.types
              /\ IsRootStruct(i) =>
                    e_wire[i].data = IF Phase(i) = 2 THEN S_EIP712Domain
                                     ELSE e_call.typed_data.primary_type
              /\ IsSigning(i) => (i = Len(e_wire) /\ e_pc = "done")
        /\ Cardinality(RootsUpTo(Len(e_wire))) <= (IF DomainDefined THEN 2 ELSE 1)
        /\ (e_pc = "done" /\ e_result.kind = "Signature") =>
              /\ Len(e_wire) > 0 /\ IsSigning(Len(e_wire))
              /\ Cardinality(RootsUpTo(Len(e_wire))) = (IF DomainDefined THEN 2 ELSE 1)

C16_Witness ==
    /\ e_call.fn = "sign_eip712_typed_data"
    /\ Cardinality(DOMAIN e_call.typed_data.types) = 4
    /\ DomainDefined
    /\ e_pc = "done"
    /\ e_result.kind = "Signature"
    /\ Cardinality({i \in 1..Len(e_wire) : IsDefinitionName(i)}) = 4
    /\ IsSigning(Len(e_wire))


\* C17: in sign_eip712_typed_data, once an exchange returns a transport
\* error or a status other than 0x9000 the call returns an error and makes no
\* further exchange; the signing exchange is made only after every struct
\* definition and struct implementation exchange has succeeded.
C17_AbortOnFirstFailure ==
    e_call.fn = "sign_eip712_typed_data" =>
        /\ Len(e_answers) = Len(e_wire)
        /\ \A i \in 1..(Len(e_wire) - 1) : e_answers[i] = SW_NO_ERROR
        /\ (Len(e_wire) > 0 /\ e_answers[Len(e_wire)] # SW_NO_ERROR) =>
              /\ e_pc = "done"
              /\ e_result.kind \in {"Transport", "UserRejected", "DeviceStatus"}
        /\ \A i \in 1..Len(e_wire) :
              IsSigning(i) =>
                 /\ \A k \in 1..(i - 1) :
                       (IsDefinition(k) \/ IsImplementation(k)) /\ e_answers[k] = SW_NO_ERROR
                 /\ i = Len(sign_eip712_typed_data(e_call.path, e_call.typed_data))

C17_Witness ==
    /\ e_call.fn = "sign_eip712_typed_data"
    /\ e_pc = "done"
    /\ Len(e_wire) >= 8
    /\ IsImplementation(Len(e_wire))
    /\ e_answers[Len(e_wire)] # SW_NO_ERROR
    /\ IsErr(e_result)
    /\ Len(e_wire) < Len(sign_eip712_typed_data(e_call.path, e_call.typed_data))


\* the signing exchange has been made and the device answered it with 0x9000
SigningAnswered ==
    /\ Len(e_wire) > 0
    /\ IsSigning(Len(e_wire))
    /\ e_response.kind = "answer"
    /\ e_response.sw = SW_NO_ERROR

\* C18: a signing response is decoded into a Signature iff its payload is
\* exactly 65 bytes, with v = byte 0, r = bytes 1..32 and s = bytes 33..64,
\* so that r and s are 32 bytes each; a payload of any other length, the
\* empty one included, gives a decode error and no Signature.
C18_SignatureDecoding ==
    SigningAnswered =>
        /\ e_pc = "done"
        /\ e_result.kind = "Signature" <=> Len(e_response.data) = 65
        /\ e_result.kind = "Signature" =>
              /\ e_result.v = e_response.data[1]
              /\ e_result.r = [i \in 1..32 |-> e_response.data[1 + i]]
              /\ e_result.s = [i \in 1..32 |-> e_response.data[33 + i]]
              /\ Len(e_result.r) = 32 /\ Len(e_result.s) = 32
        /\ Len(e_response.data) # 65 => e_result = EthErr("InvalidResponseData", "None", 0)

C18_Witness ==
    /\ SigningAnswered
    /\ Len(e_response.data) = 65
    /\ e_result.kind = "Signature"
    /\ e_result.v = 1 /\ e_result.r[1] = 2 /\ e_result.s[32] = 65


\* the errors the calls make of their inputs: a path that validate_bip32_path
\* refuses, a type string, an address, a hexadecimal text or a number that
\* the conversions refuse
ValidationErrors == {"InvalidBip32Path", "InvalidEip712Data"}

\* C19: when a call of sign_eip712_typed_data fails because of an
\* input-validation error (invalid path, malformed address or hexadecimal
\* value, number out of range, unsupported type string), that call has made
\* no device exchange.
C19_ValidationBeforeExchanges ==
    (/\ e_call.fn = "sign_eip712_typed_data"
     /\ e_pc = "done"
     /\ e_result.kind \in ValidationErrors)
    => e_wire = <<>>


\* a text that is not JSON, is not an object, lacks one of the keys domain,
\* types, primaryType, message, or names a primary type absent from types
Malformed(json_str) ==
    \/ ~json_str.wellformed
    \/ json_str.value.kind # "object"
    \/ \E key \in RequiredKeys : key \notin DOMAIN json_str.value.fields
    \/ /\ json_str.value.fields[K_primaryType].kind = "string"
       /\ json_str.value.fields[K_types].kind = "object"
       /\ json_str.value.fields[K_primaryType].str
             \notin DOMAIN json_str.value.fields[K_types].fields

\* C20: signing from a JSON string fails before any device exchange when the
\* string is not valid JSON, is not an object, lacks one of the keys domain,
\* types, primaryType, message, or names a primaryType absent from types.
C20_MalformedJsonBeforeExchanges ==
    (/\ e_call.fn \in {"sign_eip712_from_json", "EthereumApp::sign_eip712_from_json"}
     /\ Malformed(e_call.json_str))
    => /\ e_wire = <<>>
       /\ e_pc = "done" => e_result = EthErr("InvalidEip712Data", "None", 0)


(***************************************************************************)
(* Eip712Converter::parse_json_to_typed_data, on documents of several types *)
(***************************************************************************)
S_Person_array == S_Person \o <<91, 93>>

\* the types object of a document: Mail with one field, and Person and Asset
\* when the document has them
TypesJson(mail_type, person, person_type, asset) ==
    (S_Mail :> FieldsJson(<<Field(S_to, mail_type)>>))
    @@ (IF person THEN (S_Person :> FieldsJson(<<Field(S_a, person_type)>>)) ELSE <<>>)
    @@ (IF asset THEN (S_Asset :> FieldsJson(<<Field(S_amount, S_uint8)>>)) ELSE <<>>)

TypedJson(types, primary_type) ==
    JsonText(TRUE, JsonObject(
        (K_domain :> JsonObject(K_name :> JsonString(S_T)))
        @@ (K_types :> JsonObject(types))
        @@ (K_primaryType :> JsonString(primary_type))
        @@ (K_message :> JsonObject(S_to :> JsonString(AddressText)))))

pj_Texts ==
    JsonTexts
    \cup {TypedJson(TypesJson(mail_type, person, person_type, asset), primary_type) :
            mail_type \in {S_address, S_Person, S_Person_array, S_Asset},
            person \in BOOLEAN, person_type \in {S_bool, S_Asset}, asset \in BOOLEAN,
            primary_type \in {S_Mail, S_Person}}

pj_Calls == [fn : {"parse_json_to_typed_data"}, json_str : pj_Texts]

pj_Init == CallStarts(pj_Calls)

\* the call of the parser: it returns the document or an error
ParseJsonCall ==
    /\ e_pc = "run"
    /\ e_call.fn = "parse_json_to_typed_data"
    /\ e_pc' = "done"
    /\ e_result' = parse_json_to_typed_data(e_call.json_str)
    /\ UNCHANGED <<e_call, e_idx, e_wire, e_answers, e_response>>
    /\ UNCHANGED e_Others

pj_Next == ParseJsonCall

InitJson == pj_Init /\ sc_Idle /\ h_Idle /\ x_Idle /\ st_Idle

SpecJson == InitJson /\ [][pj_Next]_vars

\* the custom types that the fields of the given types of a table name
ReferencedBy(types, names) ==
    UNION {{parse_field_type(types[n][i].type).field_type.name :
               i \in {k \in 1..Len(types[n]) :
                         /\ parse_field_type(types[n][k].type).ok
                         /\ parse_field_type(types[n][k].type).field_type.kind = "Custom"}} :
           n \in names \cap DOMAIN types}

\* the types a type references, directly or through other types
RECURSIVE ReferencedTransitively(_, _)
ReferencedTransitively(types, names) ==
    IF ReferencedBy(types, names) \subseteq names THEN names
    ELSE ReferencedTransitively(types, names \cup ReferencedBy(types, names))

\* C21: every document that parse_json_to_typed_data accepts has its primary
\* type, and every custom type that a field of the primary type references
\* directly or through other types, in its type table.
C21_ReferencedTypesPresent ==
    (e_pc = "done" /\ e_call.fn = "parse_json_to_typed_data" /\ e_result.ok) =>
        ReferencedTransitively(e_result.typed_data.types, {e_result.typed_data.primary_type})
            \subseteq DOMAIN e_result.typed_data.types


(***************************************************************************)
(* parse_uint_to_min_be, parse_int_to_min_be                                *)
(***************************************************************************)
\* 2^k and 2^k - 1 as BigUint
Pow2(k) == <<2 ^ (k % 8)>> \o Zeros(k \div 8)
Pow2Minus1(k) == StripZeros(<<2 ^ (k % 8) - 1>> \o [i \in 1..(k \div 8) |-> 255])

\* the magnitudes of the integers given to the two functions: small ones, and
\* those next to the powers of two that bound the widths and the JSON numbers
NumberBits == {7, 8, 15, 16, 31, 32, 63, 64, 71, 72, 255, 256}
Magnitudes ==
    {<<>>, <<1>>, <<129>>, <<1, 0, 0>>}
    \cup {Pow2(k) : k \in NumberBits} \cup {Pow2Minus1(k) : k \in NumberBits}
    \cup {AddOne(Pow2(k)) : k \in NumberBits}

\* the widths given to the two functions, in bytes
NumberWidths == {1, 2, 4, 8, 9, 32}

\* the two hexadecimal digits of a byte, in lower or upper case
HexDigit(n, upper) == IF n < 10 THEN 48 + n ELSE (IF upper THEN 55 ELSE 87) + n
HexText(bytes, upper) ==
    Flatten([i \in 1..Len(bytes) |->
                <<HexDigit(bytes[i] \div 16, upper), HexDigit(bytes[i] % 16, upper)>>])

\* big \div 10 and big % 10, by long division
RECURSIVE DivTen(_, _, _)
DivTen(bytes, quotient, remainder) ==
    IF bytes = <<>> THEN [quotient |-> StripZeros(quotient), remainder |-> remainder]
    ELSE DivTen(Tail(bytes),
                Append(quotient, (remainder * 256 + Head(bytes)) \div 10),
                (remainder * 256 + Head(bytes)) % 10)

\* the decimal digits of a BigUint
RECURSIVE DecimalText(_)
DecimalText(big) ==
    IF big = <<>> THEN <<48>>
    ELSE LET d == DivTen(big, <<>>, 0)
         IN  (IF d.quotient = <<>> THEN <<>> ELSE DecimalText(d.quotient))
             \o <<48 + d.remainder>>

\* the forms in which an integer is given: a JSON number, or a string with
\* its decimal digits, with 0x and two digits per byte, with 0X, or with 0x
\* and no leading zero digit
NumberForms == {"number", "decimal", "hex", "HEX", "hex-short", "decimal-spaced"}

\* the longest magnitude written in decimal digits, in bytes
MaxDecimalBytes == 10
FormsOf(magnitude) ==
    IF Len(magnitude) <= MaxDecimalBytes THEN NumberForms
    ELSE NumberForms \ {"decimal", "decimal-spaced"}

\* the bytes of a BigUint, one zero byte for zero
AtLeastOneByte(magnitude) == IF magnitude = <<>> THEN <<0>> ELSE magnitude

Minus(negative) == IF negative THEN <<45>> ELSE <<>>

Written(negative, magnitude, form) ==
    CASE form = "number" -> JsonInteger(negative, magnitude)
      [] form = "decimal" -> JsonString(Minus(negative) \o DecimalText(magnitude))
      [] form = "decimal-spaced" ->
            JsonString(<<32>> \o Minus(negative) \o DecimalText(magnitude) \o <<10>>)
      [] form = "hex" ->
            JsonString(Minus(negative) \o S_0x \o HexText(AtLeastOneByte(magnitude), FALSE))
      [] form = "HEX" ->
            JsonString(Minus(negative) \o S_0X \o HexText(AtLeastOneByte(magnitude), TRUE))
      [] form = "hex-short" ->
            JsonString(Minus(negative) \o S_0x
                       \o (IF AtLeastOneByte(magnitude)[1] < 16
                           THEN Tail(HexText(AtLeastOneByte(magnitude), FALSE))
                           ELSE HexText(AtLeastOneByte(magnitude), FALSE)))

\* values that are no integer
S_abc == <<97, 98, 99>>
MalformedValues ==
    {JsonNull, JsonBool(TRUE), JsonArray(<<>>), JsonString(<<>>), JsonString(S_abc),
     JsonString(S_0x \o <<122, 122>>), JsonString(<<49, 46, 53>>), JsonString(<<45>>)}

\* a call: the function, its arguments, and the integer the value was
\* written from
nb_Calls ==
    UNION {{[fn |-> fn, value |-> Written(negative, magnitude, form), size_bytes |-> w,
             integer |-> TRUE, negative |-> negative /\ magnitude # <<>>,
             magnitude |-> magnitude, form |-> form] :
                fn \in {"parse_uint_to_min_be", "parse_int_to_min_be"},
                negative \in IF magnitude = <<>> THEN {FALSE} ELSE BOOLEAN,
                form \in FormsOf(magnitude), w \in NumberWidths} :
           magnitude \in Magnitudes}
    \cup {[fn |-> fn, value |-> value, size_bytes |-> w, integer |-> FALSE,
           negative |-> FALSE, magnitude |-> <<>>, form |-> "none"] :
            fn \in {"parse_uint_to_min_be", "parse_int_to_min_be"},
            value \in MalformedValues, w \in NumberWidths}

nb_Init == CallStarts(nb_Calls)

ParseUintCall ==
    /\ e_pc = "run"
    /\ e_call.fn = "parse_uint_to_min_be"
    /\ e_pc' = "done"
    /\ e_result' = parse_uint_to_min_be(e_call.value, e_call.size_bytes)
    /\ UNCHANGED <<e_call, e_idx, e_wire, e_answers, e_response>>
    /\ UNCHANGED e_Others

ParseIntCall ==
    /\ e_pc = "run"
    /\ e_call.fn = "parse_int_to_min_be"
    /\ e_pc' = "done"
    /\ e_result' = parse_int_to_min_be(e_call.value, e_call.size_bytes)
    /\ UNCHANGED <<e_call, e_idx, e_wire, e_answers, e_response>>
    /\ UNCHANGED e_Others

nb_Next == ParseUintCall \/ ParseIntCall

InitNumbers == nb_Init /\ sc_Idle /\ h_Idle /\ x_Idle /\ st_Idle

SpecNumbers == InitNumbers /\ [][nb_Next]_vars



\* the call of fn has returned
Returned(fn) == e_pc = "done" /\ e_call.fn = fn

\* the value is a 0x string with an odd number of digits
OddDigits == e_call.form = "hex-short" /\ AtLeastOneByte(e_call.magnitude)[1] < 16

\* what the statement about the unsigned encoding says of a returned call
UintEncoded ==
    /\ e_result.ok <=> (~e_call.negative /\ Len(e_call.magnitude) <= e_call.size_bytes)
    /\ e_result.ok =>
          /\ e_result.bytes = AtLeastOneByte(e_call.magnitude)
          /\ Len(e_result.bytes) <= e_call.size_bytes
          /\ from_bytes_be(e_result.bytes) = e_call.magnitude

\* C22 as stated: for an integer v given as a JSON number or as a decimal or
\* 0x string, parse_uint_to_min_be succeeds iff 0 <= v < 2^(8w), and its
\* output is <<0>> for zero and else the shortest big-endian bytes of v, at
\* most w of them, that decode to v again.
C22_UintEveryForm ==
    (Returned("parse_uint_to_min_be") /\ e_call.integer) => UintEncoded

\* C22: the same, for a JSON number below 2^64 or negative, a decimal string,
\* or a 0x string with an even number of digits; a JSON number from 2^64 on
\* and a 0x string with an odd number of digits end in an error whatever the
\* width.
C22_UintEncoding ==
    /\ (/\ Returned("parse_uint_to_min_be")
        /\ e_call.integer
        /\ ~OddDigits
        /\ e_call.form = "number" => (e_call.negative \/ Len(e_call.magnitude) <= 8))
       => UintEncoded
    /\ (/\ Returned("parse_uint_to_min_be")
        /\ e_call.integer
        /\ \/ OddDigits
           \/ e_call.form = "number" /\ Len(e_call.magnitude) > 8)
       => ~e_result.ok

\* 2^256 - 1 given as a 0x string for 32 bytes came back as 32 bytes
C22_Witness ==
    /\ Returned("parse_uint_to_min_be")
    /\ e_call.form = "hex"
    /\ e_call.size_bytes = 32
    /\ e_call.magnitude = Pow2Minus1(256)
    /\ e_result.ok
    /\ Len(e_result.bytes) = 32


\* -2^(8w-1) <= v <= 2^(8w-1)-1 for the integer v of the call
InSignedRange ==
    IF e_call.negative
    THEN CmpBytes(e_call.magnitude, Pow2(8 * e_call.size_bytes - 1)) <= 0
    ELSE CmpBytes(e_call.magnitude, Pow2(8 * e_call.size_bytes - 1)) < 0

\* the integer that a two's-complement big-endian byte string stands for
SignExtended(bytes) ==
    IF bytes[1] >= 128
    THEN BigInt(TRUE, TwosComplement(bytes, Len(bytes)))
    ELSE BigInt(FALSE, StripZeros(bytes))

\* a leading 0x00 before a byte with its top bit clear, or a leading 0xFF
\* before a byte with its top bit set
RedundantLead(bytes) ==
    /\ Len(bytes) > 1
    /\ \/ bytes[1] = 0 /\ bytes[2] < 128
       \/ bytes[1] = 255 /\ bytes[2] >= 128

\* C23: for an integer v with -2^(8w-1) <= v <= 2^(8w-1)-1 the bytes that
\* parse_int_to_min_be produces are the minimal two's-complement big-endian
\* encoding of v: sign-extending them gives v again, and they have no
\* redundant leading 0x00 or 0xFF; for four bytes, -1 gives <<0xFF>>, 127
\* gives <<0x7F>> and -129 gives <<0xFF, 0x7F>>.
C23_MinimalTwosComplement ==
    (/\ Returned("parse_int_to_min_be")
     /\ e_call.integer
     /\ InSignedRange
     /\ e_result.ok)
    => /\ e_result.bytes # <<>>
       /\ SignExtended(e_result.bytes) = BigInt(e_call.negative, e_call.magnitude)
       /\ ~RedundantLead(e_result.bytes)
       /\ (e_call.size_bytes = 4 /\ e_call.negative /\ e_call.magnitude = <<1>>)
             => e_result.bytes = <<255>>
       /\ (e_call.size_bytes = 4 /\ ~e_call.negative /\ e_call.magnitude = <<127>>)
             => e_result.bytes = <<127>>
       /\ (e_call.size_bytes = 4 /\ e_call.negative /\ e_call.magnitude = <<129>>)
             => e_result.bytes = <<255, 127>>

\* C24 as stated: parse_int_to_min_be succeeds for every integer in the
\* range of the width, given as a JSON number or as a decimal, 0x or -0x
\* string, and fails for every integer outside the range and for a value
\* that is no integer.
C24_IntEveryForm ==
    /\ (Returned("parse_int_to_min_be") /\ e_call.integer)
          => (e_result.ok <=> InSignedRange)
    /\ (Returned("parse_int_to_min_be") /\ ~e_call.integer) => ~e_result.ok

\* C24: the same, for a JSON number from -2^63 to 2^63-1, a decimal string,
\* or a 0x or -0x string with an even number of digits; a JSON number outside
\* -2^63..2^63-1 and a string with an odd number of hexadecimal digits end in
\* an error whatever the width.
C24_IntRange ==
    /\ (/\ Returned("parse_int_to_min_be")
        /\ e_call.integer
        /\ ~OddDigits
        /\ e_call.form = "number" => is_i64(e_call.value))
       => (e_result.ok <=> InSignedRange)
    /\ (/\ Returned("parse_int_to_min_be")
        /\ e_call.integer
        /\ \/ OddDigits
           \/ e_call.form = "number" /\ ~is_i64(e_call.value))
       => ~e_result.ok
    /\ (Returned("parse_int_to_min_be") /\ ~e_call.integer) => ~e_result.ok

\* -2^255 given as a -0x string for 32 bytes was accepted
C24_Witness ==
    /\ Returned("parse_int_to_min_be")
    /\ e_call.form = "hex"
    /\ e_call.negative
    /\ e_call.size_bytes = 32
    /\ e_call.magnitude = Pow2(255)
    /\ e_result.ok


(***************************************************************************)
(* parse_field_type                                                         *)
(***************************************************************************)
\* the decimal digits of a small number
Digits(n) == DecimalText(BigFromNat(n))

\* the type names that the function recognizes, each with its type
Recognized ==
    {<<S_bool, TypePlain("Bool")>>, <<S_address, TypePlain("Address")>>,
     <<S_string, TypePlain("String")>>, <<S_bytes, TypePlain("DynamicBytes")>>}
    \cup {<<S_bytes \o Digits(n), TypeSized("FixedBytes", n)>> : n \in 1..32}
    \cup {<<S_uint \o Digits(8 * n), TypeSized("Uint", n)>> : n \in 1..32}
    \cup {<<S_int \o Digits(8 * n), TypeSized("Int", n)>> : n \in 1..32}

RecognizedNames == {pair[1] : pair \in Recognized}

\* names that are not recognized: struct names, and names that begin as a
\* recognized one
S_internal == <<105, 110, 116, 101, 114, 110, 97, 108>>
S_bytesData == S_bytes \o <<68, 97, 116, 97>>
S_Uint8 == <<85, 105, 110, 116, 56>>
OtherNames ==
    {S_Person, S_Mail, S_Asset, S_Uint8, S_internal, S_bytesData, S_uint, S_int,
     S_bytes \o Digits(0), S_bytes \o Digits(33), S_bytes \o Digits(256),
     S_uint \o Digits(0), S_uint \o Digits(7), S_uint \o Digits(12),
     S_uint \o Digits(264), S_uint \o Digits(65536), S_int \o Digits(4),
     S_int \o Digits(257), S_Person \o <<93>>, S_Person \o <<91, 120, 93>>}

\* the type names without an array suffix, and the array suffixes: none, [],
\* and [K] for some lengths K
Stems == RecognizedNames \cup OtherNames
ArrayLengths == {0, 1, 3, 255, 256, 1000}
ArraySuffixes == {<<>>, <<91, 93>>} \cup {<<91>> \o Digits(k) \o <<93>> : k \in ArrayLengths}

\* a call: the text, and the stem and the array suffix it was written from; a
\* stem that ends in a bracket is only given with a suffix
ft_Calls ==
    {[fn |-> "parse_field_type", type_str |-> stem \o suffix, stem |-> stem,
      suffix |-> suffix] : stem \in Stems, suffix \in ArraySuffixes}
    \ {[fn |-> "parse_field_type", type_str |-> stem, stem |-> stem, suffix |-> <<>>] :
          stem \in {S_Person \o <<93>>, S_Person \o <<91, 120, 93>>}}

ft_Init == CallStarts(ft_Calls)

ParseFieldTypeCall ==
    /\ e_pc = "run"
    /\ e_call.fn = "parse_field_type"
    /\ e_pc' = "done"
    /\ e_result' = parse_field_type(e_call.type_str)
    /\ UNCHANGED <<e_call, e_idx, e_wire, e_answers, e_response>>
    /\ UNCHANGED e_Others

ft_Next == ParseFieldTypeCall

InitFieldType == ft_Init /\ sc_Idle /\ h_Idle /\ x_Idle /\ st_Idle

SpecFieldType == InitFieldType /\ [][ft_Next]_vars

\* the reference classifier: the type of a recognized name, and the custom
\* type of any other name
Classified(name) ==
    IF name \in RecognizedNames
    THEN (CHOOSE pair \in Recognized : pair[1] = name)[2]
    ELSE TypeCustom(name)

\* names that begin as bytesN, uintN or intN
ReservedPrefix(name) ==
    StartsWith(name, S_bytes) \/ StartsWith(name, S_uint) \/ StartsWith(name, S_int)

\* the suffix is [K] with K above 255
LongArray == e_call.suffix \in {<<91>> \o Digits(k) \o <<93>> : k \in {k \in ArrayLengths : k > 255}}

IndexValues == {0, 1, 44, 60, 16909060, 2147483647}
Indices == {PathIndex(hardened, n) : hardened \in BOOLEAN, n \in IndexValues}

\* the paths given to the functions: every path of up to two of a few
\* indices, and paths of every depth up to one above the limit that begin
\* with 44'/60' or otherwise
ShortIndices ==
    {PathIndex(TRUE, 44), PathIndex(TRUE, 60), PathIndex(FALSE, 0),
     PathIndex(TRUE, 2147483647)}
Paths ==
    UNION {[1..n -> ShortIndices] : n \in 0..MaxShortLen}
    \cup {[i \in 1..n |-> IF i <= Len(head) THEN head[i] ELSE rest] :
            n \in 3..(MAX_BIP32_PATH_DEPTH + 1),
            head \in {<<>>, <<PathIndex(TRUE, 44), PathIndex(TRUE, 60)>>,
                      <<PathIndex(TRUE, 60), PathIndex(TRUE, 44)>>,
                      <<PathIndex(TRUE, 44), PathIndex(FALSE, 60)>>},
            rest \in Indices}

\* byte strings that are not the encoding of a path: none, a count above the
\* limit, fewer bytes than the count asks for, and more
PathData ==
    {<<>>, <<MAX_BIP32_PATH_DEPTH + 1>> \o Zeros(4 * (MAX_BIP32_PATH_DEPTH + 1)),
     <<1>>, <<1, 128, 0, 0>>, <<2, 128, 0, 0, 44>>, <<0>>, <<0, 7>>,
     <<1, 128, 0, 0, 44, 9, 9>>}

bp_Calls ==
    [fn : {"encode_bip32_path", "validate_bip32_path", "BipPath::new"}, path : Paths]
    \cup [fn : {"decode_bip32_path"}, data : PathData]
    \cup [fn : {"BipPath::ethereum_standard"}, account : Indices, address_index : Indices]

bp_Init == CallStarts(bp_Calls)

\* encode_bip32_path(&path)
EncodePathCall ==
    /\ e_pc = "run"
    /\ e_call.fn = "encode_bip32_path"
    /\ e_pc' = "encoded"
    /\ e_response' = encode_bip32_path(e_call.path)
    /\ UNCHANGED <<e_call, e_idx, e_wire, e_answers, e_result>>
    /\ UNCHANGED e_Others

\* decode_bip32_path of the bytes just encoded
DecodeEncodedCall ==
    /\ e_pc = "encoded"
    /\ e_pc' = "done"
    /\ e_result' = decode_bip32_path(e_response)
    /\ UNCHANGED <<e_call, e_idx, e_wire, e_answers, e_response>>
    /\ UNCHANGED e_Others

\* decode_bip32_path(data)
DecodeDataCall ==
    /\ e_pc = "run"
    /\ e_call.fn = "decode_bip32_path"
    /\ e_pc' = "done"
    /\ e_result' = decode_bip32_path(e_call.data)
    /\ UNCHANGED <<e_call, e_idx, e_wire, e_answers, e_response>>
    /\ UNCHANGED e_Others

\* validate_bip32_path(&path)
ValidatePathCall ==
    /\ e_pc = "run"
    /\ e_call.fn = "validate_bip32_path"
    /\ e_pc' = "done"
    /\ e_result' = [ok |-> validate_bip32_path(e_call.path), path |-> e_call.path]
    /\ UNCHANGED <<e_call, e_idx, e_wire, e_answers, e_response>>
    /\ UNCHANGED e_Others

\* BipPath::new(indices)
NewPathCall ==
    /\ e_pc = "run"
    /\ e_call.fn = "BipPath::new"
    /\ e_pc' = "done"
    /\ e_result' = BipPath_new(e_call.path)
    /\ UNCHANGED <<e_call, e_idx, e_wire, e_answers, e_response>>
    /\ UNCHANGED e_Others

\* validate_bip32_path(&BipPath::ethereum_standard(account, address_index))
StandardPathCall ==
    /\ e_pc = "run"
    /\ e_call.fn = "BipPath::ethereum_standard"
    /\ e_pc' = "done"
    /\ \E path \in {ethereum_standard(e_call.account, e_call.address_index)} :
          e_result' = [ok |-> validate_bip32_path(path), path |-> path]
    /\ UNCHANGED <<e_call, e_idx, e_wire, e_answers, e_response>>
    /\ UNCHANGED e_Others

bp_Next ==
    \/ EncodePathCall
    \/ DecodeEncodedCall
    \/ DecodeDataCall
    \/ ValidatePathCall
    \/ NewPathCall
    \/ StandardPathCall

InitPaths == bp_Init /\ sc_Idle /\ h_Idle /\ x_Idle /\ st_Idle

SpecPaths == InitPaths /\ [][bp_Next]_vars

\* the four bytes at the place of the i-th index are the index, high byte
\* first
IndexAt(bytes, i, index) ==
    /\ bytes[4 * i - 2] = (IF index.hardened THEN 128 ELSE 0) + index.n \div 16777216
    /\ bytes[4 * i - 1] * 65536 + bytes[4 * i] * 256 + bytes[4 * i + 1] = index.n % 16777216

\* C26: for a path of at most 10 indices, encode_bip32_path gives the count
\* byte and then each index as 4 bytes big-endian, 1 + 4*len bytes in all, and
\* decode_bip32_path of these bytes returns the path and the length
\* 1 + 4*len; m/44'/60'/0'/0/0 encodes to
\* 05 8000002C 8000003C 80000000 00000000 00000000.
C26_PathRoundTrip ==
    (/\ e_call.fn = "encode_bip32_path"
     /\ e_pc \in {"encoded", "done"}
     /\ Len(e_call.path) <= 10)
    => /\ Len(e_response) = 1 + 4 * Len(e_call.path)
       /\ e_response[1] = Len(e_call.path)
       /\ \A i \in 1..Len(e_call.path) : IndexAt(e_response, i, e_call.path[i])
       /\ e_pc = "done" =>
             /\ e_result.ok
             /\ e_result.path = e_call.path
             /\ e_result.offset = 1 + 4 * Len(e_call.path)
       /\ e_call.path = StandardPath =>
             e_response = <<5, 128, 0, 0, 44, 128, 0, 0, 60, 128, 0, 0, 0,
                            0, 0, 0, 0, 0, 0, 0, 0>>

\* a path of ten indices was encoded and decoded
C26_Witness ==
    /\ e_call.fn = "encode_bip32_path"
    /\ e_pc = "done"
    /\ Len(e_call.path) = 10
    /\ e_call.path[10] = PathIndex(TRUE, 2147483647)
    /\ e_result.ok
    /\ e_result.offset = 41

\* C27: a path that validate_bip32_path accepts has 1 to 10 indices and, when
\* it has three or more and begins with 44'/60', a hardened third index;
\* BipPath::new rejects more than 10 indices; and the path of
\* ethereum_standard passes validation for every account and address index.
C27_ValidPaths ==
    /\ (Returned("validate_bip32_path") /\ e_result.ok)
          => /\ Len(e_call.path) \in 1..10
             /\ (/\ Len(e_call.path) >= 3
                 /\ e_call.path[1] = PathIndex(TRUE, 44)
                 /\ e_call.path[2] = PathIndex(TRUE, 60))
                   => e_call.path[3].hardened
    /\ (Returned("BipPath::new") /\ Len(e_call.path) > 10) => ~e_result.ok
    /\ Returned("BipPath::ethereum_standard") => e_result.ok

\* a path of ten indices that begins with 44'/60'/0' was accepted, and the
\* same with 0 in the third place, or one index more, is in the paths given
C27_Witness ==
    /\ Returned("validate_bip32_path")
    /\ Len(e_call.path) = 10
    /\ e_call.path[1] = PathIndex(TRUE, 44)
    /\ e_call.path[2] = PathIndex(TRUE, 60)
    /\ e_call.path[3] = PathIndex(TRUE, 0)
    /\ e_result.ok


(***************************************************************************)
(* send_filter_config, activate_filtering                                   *)
(***************************************************************************)
\* display names and paths, and signatures, by their lengths
TextOfLen(n) == [i \in 1..n |-> 65 + (i % 26)]
BlobOfLen(n) == [i \in 1..n |-> (7 * i) % 256]
FilterNames == {TextOfLen(n) : n \in {0, 1, MaxShortLen, 255, 256}}
FilterSignatures == {BlobOfLen(n) : n \in {0, MaxShortLen, 70, 256}}
FilterCounts == {0, 7, 255}
FilterLists == {<<>>, <<1>>, <<2, 1>>}

FilterTypes ==
    {Activation}
    \cup {DiscardedFilterPath(path) : path \in FilterNames}
    \cup {MessageInfo(name, count, signature) :
            name \in FilterNames, count \in FilterCounts, signature \in FilterSignatures}
    \cup {TrustedName(name, types, sources, signature) :
            name \in FilterNames, types \in FilterLists, sources \in FilterLists,
            signature \in FilterSignatures}
    \cup {DateTime(name, signature) : name \in FilterNames, signature \in FilterSignatures}
    \cup {AmountJoinToken(index, signature) :
            index \in FilterCounts, signature \in FilterSignatures}
    \cup {AmountJoinValue(name, index, signature) :
            name \in FilterNames, index \in FilterCounts, signature \in FilterSignatures}
    \cup {RawField(name, signature) : name \in FilterNames, signature \in FilterSignatures}

fl_Calls ==
    {[fn |-> "send_filter_config", filter_params |-> FilterParams(filter_type, discarded)] :
        filter_type \in FilterTypes, discarded \in BOOLEAN}
    \cup {[fn |-> "activate_filtering"]}

fl_Init == CallStarts(fl_Calls)

fl_Next == FlowExchange

InitFilter == fl_Init /\ sc_Idle /\ h_Idle /\ x_Idle /\ st_Idle

SpecFilter == InitFilter /\ [][fl_Next]_vars

\* the fields of a rule in the order Eip712FilterType declares them: a
\* variable-length field with its bytes, a one-byte field with its value
Variable(bytes) == [variable |-> TRUE, bytes |-> bytes]
OneByte(value) == [variable |-> FALSE, bytes |-> <<value>>]
DeclaredFields(t) ==
    CASE t.kind = "Activation" -> <<>>
      [] t.kind = "DiscardedFilterPath" -> <<Variable(t.display_name)>>
      [] t.kind = "MessageInfo" ->
            <<Variable(t.display_name), OneByte(t.filters_count), Variable(t.signature)>>
      [] t.kind = "TrustedName" ->
            <<Variable(t.display_name), Variable(t.name_types), Variable(t.name_sources),
              Variable(t.signature)>>
      [] t.kind = "DateTime" -> <<Variable(t.display_name), Variable(t.signature)>>
      [] t.kind = "AmountJoinToken" -> <<OneByte(t.token_index), Variable(t.signature)>>
      [] t.kind = "AmountJoinValue" ->
            <<Variable(t.display_name), OneByte(t.token_index), Variable(t.signature)>>
      [] t.kind = "RawField" -> <<Variable(t.display_name), Variable(t.signature)>>

\* the marker of each rule kind
KindMarker ==
    [Activation |-> "ACTIVATION", DiscardedFilterPath |-> "DISCARDED_FILTER_PATH",
     MessageInfo |-> "MESSAGE_INFO", TrustedName |-> "TRUSTED_NAME",
     DateTime |-> "DATE_TIME", AmountJoinToken |-> "AMOUNT_JOIN_TOKEN",
     AmountJoinValue |-> "AMOUNT_JOIN_VALUE", RawField |-> "RAW_FIELD"]

\* the fields one after the other, each variable-length one behind a byte
\* that holds its length, or its length modulo modulus
LaidOut(fields, modulus) ==
    Flatten([i \in 1..Len(fields) |->
                IF fields[i].variable
                THEN <<Len(fields[i].bytes) % modulus>> \o fields[i].bytes
                ELSE fields[i].bytes])

EndsWith(bytes, suffix) ==
    /\ Len(suffix) <= Len(bytes)
    /\ SubSeq(bytes, Len(bytes) - Len(suffix) + 1, Len(bytes)) = suffix

\* send_filter_config has handed its command to the transport
FilterSent == e_call.fn = "send_filter_config" /\ e_pc = "done"

\* one command, with the marker for discarded or standard and the rule kind
FilterHeader ==
    /\ Len(e_wire) = 1
    /\ e_wire[1].ins = "EIP712_FILTERING"
    /\ e_wire[1].p1 = "DISCARDED" <=> e_call.filter_params.discarded
    /\ e_wire[1].p1 = "STANDARD" <=> ~e_call.filter_params.discarded
    /\ e_wire[1].p2 = KindMarker[e_call.filter_params.filter_type.kind]

\* activation by either call is one exchange with an empty payload
ActivationSent ==
    /\ (e_call.fn = "activate_filtering" /\ e_pc = "done")
          => e_wire = <<Command("EIP712_FILTERING", "STANDARD", "ACTIVATION", <<>>)>>
    /\ (FilterSent /\ e_call.filter_params.filter_type.kind = "Activation")
          => Len(e_wire) = 1 /\ e_wire[1].data = <<>>

\* C28 as stated: the command of a rule has p1 = the discarded marker iff the
\* rule is flagged discarded, p2 = the rule kind, and a payload of the rule's
\* fields in declared order, each variable-length field behind its one-byte
\* length, that ends with the length-prefixed signature; activation is one
\* exchange with an empty payload.
C28_FilterPayloadEndsWithSignature ==
    /\ FilterSent => FilterHeader
    /\ (FilterSent /\ e_call.filter_params.filter_type.kind # "Activation")
          => /\ e_wire[1].data
                    = LaidOut(DeclaredFields(e_call.filter_params.filter_type), 65536)
             /\ \E last \in {DeclaredFields(e_call.filter_params.filter_type)
                                [Len(DeclaredFields(e_call.filter_params.filter_type))]} :
                   /\ last = Variable(e_call.filter_params.filter_type.signature)
                   /\ e_call.filter_params.filter_type.kind # "DiscardedFilterPath"
                   /\ EndsWith(e_wire[1].data, LaidOut(<<last>>, 65536))
    /\ ActivationSent

\* C28: the same with the length bytes taken modulo 256, which is the length
\* for fields of at most 255 bytes, and with the signature at the end for
\* every rule that has one, that is for every rule but the discarded filter
\* path, whose payload is the length-prefixed path alone.
C28_FilterPayload ==
    /\ FilterSent => FilterHeader
    /\ (FilterSent /\ e_call.filter_params.filter_type.kind # "Activation")
          => /\ e_wire[1].data
                    = LaidOut(DeclaredFields(e_call.filter_params.filter_type), 256)
             /\ IF e_call.filter_params.filter_type.kind = "DiscardedFilterPath"
                THEN e_wire[1].data
                         = LaidOut(<<Variable(e_call.filter_params.filter_type.display_name)>>,
                                   256)
                ELSE EndsWith(e_wire[1].data,
                              LaidOut(<<Variable(e_call.filter_params.filter_type.signature)>>,
                                      256))
    /\ ActivationSent

\* a discarded trusted-name rule with two types, one source and a signature
\* of 70 bytes was sent and accepted
C28_Witness ==
    /\ FilterSent
    /\ e_call.filter_params.discarded
    /\ e_call.filter_params.filter_type.kind = "TrustedName"
    /\ e_call.filter_params.filter_type.name_types = <<2, 1>>
    /\ e_call.filter_params.filter_type.name_sources = <<1>>
    /\ Len(e_call.filter_params.filter_type.signature) = 70
    /\ Len(e_call.filter_params.filter_type.display_name) = 255
    /\ e_result = EthSuccess


(***************************************************************************)
(* The EIP-712 methods of EthereumApp and the version of the app            *)
(***************************************************************************)
HashOf(seed) == [i \in 1..32 |-> (seed + i) % 256]

vs_Calls ==
    {[fn |-> "EthereumApp::sign_eip712_v0",
      params |-> SignEip712Params(path, HashOf(0), HashOf(MaxSeed))] :
        path \in {StandardPath, <<>>}}
    \cup [fn : {"EthereumApp::sign_eip712_full"}, path : {StandardPath, <<>>}]
    \cup [fn : {"EthereumApp::send_struct_definition"},
          struct_def : {d \in StructDefinitions : d.name = S_Asset /\ Len(d.fields) <= 1}]
    \cup [fn : {"EthereumApp::send_struct_implementation"},
          struct_impl : {i \in StructImplementations :
                            i.name = S_Asset /\ Len(i.values) <= 1}]
    \cup [fn : {"EthereumApp::set_array_size"}, size : {0, MaxFields, 255}]
    \cup [fn : {"EthereumApp::send_filter_config"},
          filter_params : {FilterParams(Activation, FALSE),
                           FilterParams(DateTime(TextOfLen(MaxShortLen), BlobOfLen(70)), TRUE)}]
    \cup {[fn |-> "EthereumApp::activate_filtering"]}
    \cup [fn : {"EthereumApp::sign_eip712_typed_data"}, path : {StandardPath, <<>>},
          typed_data : {MinimalDocument(S_T, AddressText, S_Mail, S_address,
                                        JsonString(AddressText))}]
    \cup [fn : {"EthereumApp::sign_eip712_from_json"}, path : {StandardPath},
          json_str : {JsonText(TRUE, JsonObject(DocumentJson(AddressText, S_Mail,
                                                              AddressText))),
                      JsonText(FALSE, JsonNull)}]

vs_Init == CallStarts(vs_Calls)

vs_Next == FlowExchange \/ FlowError

InitVersion == vs_Init /\ sc_Idle /\ h_Idle /\ x_Idle /\ st_Idle

SpecVersion == InitVersion /\ [][vs_Next]_vars

\* the version below which a method is refused
Threshold(fn) == IF fn = "EthereumApp::sign_eip712_v0" THEN <<1, 5, 0>> ELSE <<1, 9, 19>>

\* the version that the configuration data reports is lower than the
\* threshold, in (major, minor, patch) order
VersionLower(data, threshold) ==
    \/ data[2] < threshold[1]
    \/ data[2] = threshold[1] /\ data[3] < threshold[2]
    \/ data[2] = threshold[1] /\ data[3] = threshold[2] /\ data[4] < threshold[3]

\* what the method calls once the version is accepted
Delegated(call) ==
    CASE call.fn = "EthereumApp::sign_eip712_v0" -> sign_eip712_v0(call.params)
      [] call.fn = "EthereumApp::sign_eip712_full" -> sign_eip712_full(call.path)
      [] call.fn = "EthereumApp::send_struct_definition" ->
            send_struct_definition(call.struct_def)
      [] call.fn = "EthereumApp::send_struct_implementation" ->
            send_struct_implementation(call.struct_impl)
      [] call.fn = "EthereumApp::set_array_size" -> set_array_size(call.size)
      [] call.fn = "EthereumApp::send_filter_config" ->
            send_filter_config(call.filter_params)
      [] call.fn = "EthereumApp::activate_filtering" -> activate_filtering
      [] call.fn = "EthereumApp::sign_eip712_typed_data" ->
            sign_eip712_typed_data(call.path, call.typed_data)
      [] call.fn = "EthereumApp::sign_eip712_from_json" ->
            sign_eip712_from_json(call.path, call.json_str)

\* the configuration was queried and answered with a version, and nothing
\* was sent since
VersionReported ==
    /\ Len(e_wire) = 1
    /\ e_response.kind = "answer"
    /\ e_response.sw = SW_NO_ERROR
    /\ Len(e_response.data) >= 4

\* C29: every EIP-712 method of EthereumApp first queries the configuration;
\* when the version reported is lower than 1.9.19 (1.5.0 for sign_eip712_v0)
\* it returns UnsupportedVersion and sends nothing more, and it returns
\* UnsupportedVersion in no other case; when the version is at least the
\* threshold it goes on to the call behind it, whose first command, if its
\* arguments pass the checks made before it, is the next command sent.
C29_VersionGate ==
    /\ e_wire # <<>> =>
          e_wire[1] = Command("GET_APP_CONFIGURATION", "0x00", "0x00", <<>>)
    /\ (VersionReported /\ VersionLower(e_response.data, Threshold(e_call.fn)))
          => /\ e_pc = "done"
             /\ e_result = EthErr("UnsupportedVersion", "None", 0)
    /\ e_result.kind = "UnsupportedVersion"
          => /\ VersionReported
             /\ VersionLower(e_response.data, Threshold(e_call.fn))
    /\ (/\ VersionReported
        /\ ~VersionLower(e_response.data, Threshold(e_call.fn))
        /\ Delegated(e_call)[1].kind = "exchange")
          => e_pc = "run" /\ e_idx = 2
    /\ Len(e_wire) >= 2 => e_wire[2] = Delegated(e_call)[1].command

\* set_array_size was refused at version 1.9.18
C29_Witness ==
    /\ e_call.fn = "EthereumApp::set_array_size"
    /\ e_pc = "done"
    /\ e_wire = <<Command("GET_APP_CONFIGURATION", "0x00", "0x00", <<>>)>>
    /\ e_response.data = <<0, 1, 9, 18>>
    /\ e_result = EthErr("UnsupportedVersion", "None", 0)


(***************************************************************************)
(* The payload of a command and its length byte                             *)
(***************************************************************************)
\* ApduCommand::to_bytes: class, instruction, the two parameters, the length
\* of the payload as u8, the payload
to_bytes(command) ==
    <<"CLA", command.ins, command.p1, command.p2, AsU8(Len(command.data))>> \o command.data

\* C30: every command handed to the transport has a payload of at most 255
\* bytes, for all caller inputs, so its single length byte equals the payload
\* length; here for the commands of send_struct_definition.
C30_PayloadAtMost255 ==
    \A i \in 1..Len(e_wire) :
        /\ Len(e_wire[i].data) <= 255
        /\ to_bytes(e_wire[i])[5] = Len(e_wire[i].data)

(***************************************************************************)
(* read_apdu and write_apdu when the device transfers less than a packet   *)
(***************************************************************************)
\* what the last device.read_timeout delivered
LastRead == h_reads[Len(h_reads)]

\* C31: a read that returns fewer than 7 bytes for the first packet of a
\* response, or fewer than 5 bytes for a later packet (0 bytes after a timeout
\* included), makes read_apdu fail with the communication error "Incomplete
\* header": nothing is appended to the answer, the read is not repeated, and no
\* further packet is read once read_apdu has returned
C31_ShortReadFails ==
    [][/\ (/\ Len(h_reads') = Len(h_reads) + 1
           /\ ~h_reads'[Len(h_reads')].failed
           /\ \/ Len(h_reads) = 0 /\ Len(h_reads'[Len(h_reads')].data) < 7
              \/ Len(h_reads'[Len(h_reads')].data) < 5)
          => /\ h_pc' = "done"
             /\ h_rresult' = [status |-> "err", err |-> "Incomplete header", n |-> 0]
             /\ h_answer' = h_answer
       /\ h_rresult.status = "err" => (h_pc = "done" /\ h_reads' = h_reads)]_vars

C31_Witness ==
    /\ h_pc = "done"
    /\ Len(h_reads) = 2
    /\ Len(h_reads[1].data) = 64
    /\ ~LastRead.failed
    /\ LastRead.data = <<>>
    /\ h_rresult.err = "Incomplete header"
    /\ Len(h_answer) = 57

\* C32: when a device write transfers fewer than the 65 bytes of a packet, or
\* fails, write_apdu returns an error at once: that write is the last one of
\* the command, and no response is read
C32_ShortWriteStops ==
    /\ Len(h_wsizes) = Len(h_written)
    /\ \A i \in 1..Len(h_wsizes) :
          h_wsizes[i] < 65 =>
              /\ i = Len(h_wsizes)
              /\ h_pc = "done"
              /\ h_wresult \in {"Comm", "Hid"}
              /\ h_wresult = "Hid" <=> h_wsizes[i] = -1
              /\ h_reads = <<>>
              /\ h_rresult.status = "pending"

C32_Witness ==
    /\ h_pc = "done"
    /\ Len(h_command) = 117
    /\ h_wsizes = <<65, 64>>
    /\ h_wresult = "Comm"
    /\ h_reads = <<>>

\* C39: of a packet after the first that was read with fewer than 64 bytes
\* (and at least its header), read_apdu appends to the answer only bytes that
\* the read reported: at most the bytes after the 5-byte header, and those very
\* bytes
C39_OnlyReceivedBytes ==
    [][(/\ Len(h_reads') = Len(h_reads) + 1
        /\ Len(h_reads) >= 1
        /\ ~h_reads'[Len(h_reads')].failed
        /\ Len(h_reads'[Len(h_reads')].data) >= 5)
       => LET data == h_reads'[Len(h_reads')].data
              added == SubSeq(h_answer', Len(h_answer) + 1, Len(h_answer'))
          IN  /\ Len(added) <= Len(data) - 5
              /\ added = SubSeq(data, 6, 5 + Len(added))]_vars

(***************************************************************************)
(* Calls of several exchanges, made by several tasks on one transport      *)
(***************************************************************************)
\* a call of each kind, of two exchanges: a struct of one field, an
\* implementation of one value, a message of one chunk
fw_Calls ==
    {[fn |-> "send_struct_definition",
      struct_def |-> StructDefinition(S_Asset,
                        <<FieldDefinition(TypeSized("Uint", 32), S_amount, <<>>)>>)],
     [fn |-> "send_struct_implementation",
      struct_impl |-> StructImplementation(S_Asset, <<<<1>>>>)],
     [fn |-> "send_chunks",
      command |-> [cla |-> 224, ins |-> 8, p1 |-> ChunkInit, p2 |-> 0,
                   data |-> <<1, 128, 0, 0, 44>>],
      message |-> BytePattern(1, 0)]}

\* the commands of the exchanges of a call made of steps
StepCommands(steps) ==
    [i \in 1..Len(steps) |->
        [cla |-> 224, ins |-> steps[i].command.ins, p1 |-> steps[i].command.p1,
         p2 |-> steps[i].command.p2, data |-> steps[i].command.data]]

\* the commands a call hands to transport.exchange, one after the other
FlowCommands(call) ==
    IF call.fn = "send_chunks"
    THEN <<call.command>> \o
         [i \in 1..NumChunks(call.message) |->
             ChunkCommand(call.command, call.message, i - 1)]
    ELSE StepCommands(Steps(call))

\* command.serialize() of each
SerializeAll(commands) == [i \in 1..Len(commands) |-> serialize(commands[i])]

\* the context of a task at the first exchange, with the commands that follow
ContextOf(apdus) == [NoContext EXCEPT !.apdu = Head(apdus), !.flow = Tail(apdus)]

FlowStart(call) == ContextOf(SerializeAll(FlowCommands(call)))

\* the two tasks that make a call; any other caller of the transport stays out
FlowTasks == {1, 2}

fw_Init ==
    /\ x_pc = [c \in Callers |-> IF c \in FlowTasks THEN "call" ELSE "idle"]
    /\ x_owner = 0
    /\ \E calls \in [FlowTasks -> fw_Calls] :
          x_ctx = [c \in Callers |->
                     IF c \in FlowTasks THEN FlowStart(calls[c]) ELSE NoContext]
    /\ x_log = <<>>

\* transport.exchange(..).await?: the call goes on after an exchange that
\* returned a response
FlowProceeds_after_error(result) == TRUE

FlowProceeds(result) == result = "ok"

\* between two exchanges of a call: the check of the response returns its
\* error from the call, or the next command is handed to transport.exchange
FlowStep ==
    \E c \in Callers :
        /\ x_pc[c] = "done"
        /\ x_ctx[c].flow # <<>>
        /\ FlowProceeds(x_ctx[c].result)
        /\ \/ /\ x_ctx' = [x_ctx EXCEPT ![c].flow = <<>>, ![c].result = "status error"]
              /\ UNCHANGED x_pc
           \/ /\ x_ctx' = [x_ctx EXCEPT ![c] = [NoContext EXCEPT
                                                  !.apdu = Head(x_ctx[c].flow),
                                                  !.flow = Tail(x_ctx[c].flow)]]
              /\ x_pc' = [x_pc EXCEPT ![c] = "call"]
        /\ UNCHANGED <<x_owner, x_log>>
        /\ UNCHANGED x_Others

fw_Next ==
    \/ ExchangeLock
    \/ ExchangeWrite
    \/ ExchangeRead
    \/ ExchangeReturn
    \/ FlowStep

InitFlows == fw_Init /\ sc_Idle /\ h_Idle /\ st_Idle /\ e_Idle

SpecFlows == InitFlows /\ [][fw_Next]_vars

\* the first packet written of an exchange
FirstPacket(entry) == entry.op = "write" /\ entry.idx = 0

\* C38, as the code has it: the lock is held for one exchange. The packets of
\* one exchange are never interleaved with those of another task (when the
\* task changes in the log, the entry is the first packet of an exchange, and
\* the task that was interrupted comes back with the first packet of an
\* exchange), and a call makes no exchange after one that failed
C38_ExchangesAtomicInFlows ==
    [][/\ \A i \in 1..(Len(x_log') - 1) :
             x_log'[i].caller # x_log'[i + 1].caller =>
                 /\ FirstPacket(x_log'[i + 1])
                 /\ \A k \in (i + 1)..Len(x_log') :
                       (/\ x_log'[k].caller = x_log'[i].caller
                        /\ \A j \in (i + 1)..(k - 1) :
                              x_log'[j].caller # x_log'[i].caller)
                       => FirstPacket(x_log'[k])
       /\ \A c \in Callers :
             (x_pc[c] = "done" /\ x_ctx[c].result # "ok") =>
                 (x_pc'[c] = "done" /\ x_ctx'[c] = x_ctx[c])]_vars

\* two calls of two exchanges each, all four successful, made in turns
C38_Witness ==
    /\ \A c \in FlowTasks :
          x_pc[c] = "done" /\ x_ctx[c].result = "ok" /\ x_ctx[c].flow = <<>>
    /\ \E i, j, k, l \in 1..Len(x_log) :
          /\ i < j /\ j < k /\ k < l
          /\ x_log[i].caller = 1
          /\ x_log[j].caller = 2
          /\ x_log[k].caller = 1
          /\ x_log[l].caller = 2

\* C38, as stated: the exchanges of the calls of two tasks are never
\* interleaved: all the exchanges of one call come before or after all those
\* of the other
C38_FlowsNotInterleaved ==
    \A i \in 1..Len(x_log) : \A k \in i..Len(x_log) :
        x_log[i].caller = x_log[k].caller =>
            \A j \in i..k : x_log[j].caller = x_log[i].caller

(***************************************************************************)
(* sign_personal_message                                                   *)
(***************************************************************************)
\* the lengths of the messages: none, one byte, around what fills the first
\* frame after the standard path (230 bytes) and after a path of one index
\* (246), and around what fills the second frame (230 + 255)
MessageSizes == {0, 1, 230, 231, 246, 247, 485, 486}

pm_Paths == {StandardPath, <<PathIndex(TRUE, 44)>>, <<>>}

pm_Calls ==
    {[fn |-> "sign_personal_message", path |-> path, message |-> BytePattern(len, seed)] :
        path \in pm_Paths, len \in MessageSizes, seed \in 0..MaxSeed}

pm_Init == CallStarts(pm_Calls)

pm_Next == FlowExchange \/ FlowError

InitMessage == pm_Init /\ sc_Idle /\ h_Idle /\ x_Idle /\ st_Idle

SpecMessage == InitMessage /\ [][pm_Next]_vars

\* the number of frames of the message of the call: the first, and one for
\* every 255 bytes that the first leaves
FrameTotal ==
    LET room == 255 - (1 + 4 * Len(e_call.path) + 4)
    IN  IF Len(e_call.message) <= room THEN 1
        ELSE 1 + (Len(e_call.message) - room + 254) \div 255

\* C33: a frame that is not the last, answered with status 0x9000 and no data,
\* lets the call go on to the next frame; the last frame, answered with status
\* 0x9000 and 65 bytes, makes the call return the signature of these bytes:
\* their first byte as v, the next 32 as r, the last 32 as s
C33_EmptyAnswersContinue ==
    [][(/\ e_call.fn = "sign_personal_message"
        /\ Len(e_wire') = Len(e_wire) + 1
        /\ e_response'.kind = "answer"
        /\ e_response'.sw = 36864)
       => /\ (Len(e_wire') < FrameTotal /\ e_response'.data = <<>>) => e_pc' = "run"
          /\ (Len(e_wire') = FrameTotal /\ Len(e_response'.data) = 65) =>
                /\ e_pc' = "done"
                /\ e_result' = [kind |-> "Signature", v |-> e_response'.data[1],
                                r |-> SubSeq(e_response'.data, 2, 33),
                                s |-> SubSeq(e_response'.data, 34, 65)]]_vars

\* the message bytes of the frame of index i (from 1) sent
MessagePart(i) ==
    IF i = 1
    THEN SubSeq(e_wire[1].data, 1 + 4 * Len(e_call.path) + 4 + 1, Len(e_wire[1].data))
    ELSE e_wire[i].data

MessageParts == [i \in 1..Len(e_wire) |-> MessagePart(i)]

\* C37: every frame of a non-empty message has at most 255 bytes of data; the
\* first has p1 = 0x00 and carries the encoded path, the length of the message
\* in 4 bytes big-endian and the first 255 - (path length + 4) bytes of the
\* message; every later one has p1 = 0x80 and carries the next bytes of the
\* message, 255 of them unless the message ends; the parts in the order sent
\* are the message from its start, and the whole message once all are sent
C37_MessageFrames ==
    e_call.fn = "sign_personal_message" =>
        /\ Len(e_wire) <= FrameTotal
        /\ e_wire # <<>> => Len(e_call.message) > 0
        /\ \A i \in 1..Len(e_wire) :
              /\ Len(e_wire[i].data) <= 255
              /\ e_wire[i].ins = 8
              /\ e_wire[i].p1 = (IF i = 1 THEN 0 ELSE 128)
              /\ e_wire[i].p2 = 0
              /\ i > 1 => Len(e_wire[i].data) >= 1
              /\ (i > 1 /\ i < FrameTotal) => Len(e_wire[i].data) = 255
        /\ e_wire # <<>> =>
              LET path_len == 1 + 4 * Len(e_call.path)
                  first == e_wire[1].data
              IN  /\ SubSeq(first, 1, path_len) = encode_bip32_path(e_call.path)
                  /\ first[path_len + 1] * 16777216 + first[path_len + 2] * 65536
                        + first[path_len + 3] * 256 + first[path_len + 4]
                     = Len(e_call.message)
                  /\ Len(MessagePart(1)) = Min(Len(e_call.message), 255 - (path_len + 4))
        /\ Flatten(MessageParts) = SubSeq(e_call.message, 1, Len(Flatten(MessageParts)))
        /\ Len(e_wire) = FrameTotal => Flatten(MessageParts) = e_call.message
        /\ e_result.kind = "Signature" => Len(e_wire) = FrameTotal

C37_Witness ==
    /\ e_call.fn = "sign_personal_message"
    /\ e_call.path = StandardPath
    /\ Len(e_call.message) = 486
    /\ Len(e_wire) = 3
    /\ Len(e_wire[1].data) = 255
    /\ Len(e_wire[3].data) = 1
    /\ e_result.kind = "Signature"

(***************************************************************************)
(* sign_eip712_typed_data: domain orders, array fields, nested structs     *)
(***************************************************************************)
S_bytes32 == S_bytes \o <<51, 50>>
S_uint8_dynamic == S_uint8 \o <<91, 93>>
S_uint8_fixed == S_uint8 \o <<91, 51, 93>>

MailFields == <<Field(S_to, S_address)>>
MailMessage == JsonObject(S_to :> JsonString(AddressText))

\* documents whose EIP712Domain type has its fields in the usual order, in
\* another order, and with a salt
DomainDocuments ==
    {MinimalDocument(S_T, AddressText, S_Mail, S_address, JsonString(AddressText)),
     TypedData(Domain(Some(S_T), Some(S_1), None, None, None),
               (S_EIP712Domain :> <<Field(K_version, S_string), Field(K_name, S_string)>>)
                   @@ (S_Mail :> MailFields),
               S_Mail, MailMessage),
     TypedData(Domain(Some(S_T), Some(S_1), Some(<<1>>), Some(AddressText),
                      Some(BytePattern(32, 0))),
               (S_EIP712Domain :> (DomainFields \o <<Field(K_salt, S_bytes32)>>))
                   @@ (S_Mail :> MailFields),
               S_Mail, MailMessage)}

\* documents with a field of an array type: of numbers, dynamic and of three,
\* and of structs
ArrayDocuments ==
    {TypedData(Domain(None, None, None, None, None),
               (S_Person :> PersonFields) @@ (S_Mail :> <<Field(S_to, type)>>),
               S_Mail, JsonObject(S_to :> JsonArray(<<>>))) :
        type \in {S_uint8_dynamic, S_uint8_fixed, S_Person_array}}

\* a document whose primary type has a field of a struct type
NestedDocuments ==
    {TypedData(Domain(None, None, None, None, None), SeveralTypes, S_Asset,
               JsonObject(S_a :> JsonObject(S_a :> JsonBool(TRUE))))}

dc_Calls ==
    [fn : {"sign_eip712_typed_data"}, path : {StandardPath, <<>>},
     typed_data : DomainDocuments \cup ArrayDocuments \cup NestedDocuments]

dc_Init == CallStarts(dc_Calls)

dc_Next == FlowExchange \/ FlowError

InitDocuments == dc_Init /\ sc_Idle /\ h_Idle /\ x_Idle /\ st_Idle

SpecDocuments == InitDocuments /\ [][dc_Next]_vars

\* the exchange of index k opens the implementation of the struct of that name
OpensImplementation(k, name) ==
    /\ e_wire[k].ins = "EIP712_SEND_STRUCT_IMPLEMENTATION"
    /\ e_wire[k].p2 = "ROOT_STRUCT"
    /\ e_wire[k].data = name

\* the value of the document's domain for the field of that name, as the
\* device receives it: its length on two bytes, then its bytes
DomainValueOf(field_name) ==
    LET domain == e_call.typed_data.domain
        bytes == CASE field_name = K_name -> domain.name.v
                   [] field_name = K_version -> domain.version.v
                   [] field_name = K_chainId -> domain.chain_id.v
                   [] field_name = K_verifyingContract ->
                          HexDecode(From(domain.verifying_contract.v, 2))
                   [] field_name = K_salt -> domain.salt.v
    IN  <<0, Len(bytes)>> \o bytes

\* C34: once the implementation of EIP712Domain is sent (the implementation of
\* the primary type is opened after it), it has exactly one value for each
\* field of the EIP712Domain type of the document, in the order of the fields
C34_DomainValuesFollowDefinition ==
    e_call.fn = "sign_eip712_typed_data" =>
        \A r, q \in 1..Len(e_wire) :
            (/\ r < q
             /\ OpensImplementation(r, S_EIP712Domain)
             /\ OpensImplementation(q, e_call.typed_data.primary_type))
            => LET fields == e_call.typed_data.types[S_EIP712Domain]
               IN  /\ q - r - 1 = Len(fields)
                   /\ \A i \in 1..Len(fields) :
                         e_wire[r + i].data = DomainValueOf(fields[i].name)

\* the exchange that names the struct whose field the exchange of index k defines
StructNameBefore(k) ==
    CHOOSE j \in 1..k :
        /\ e_wire[j].p2 = "STRUCT_NAME"
        /\ \A i \in (j + 1)..k : e_wire[i].p2 # "STRUCT_NAME"

\* C35: the definition sent for a field whose type text ends with an array
\* suffix, [] or [K], has the bit 0x80 of its descriptor byte set
C35_ArrayFieldsMarked ==
    e_call.fn = "sign_eip712_typed_data" =>
        \A k \in 1..Len(e_wire) :
            (/\ e_wire[k].ins = "EIP712_SEND_STRUCT_DEFINITION"
             /\ e_wire[k].p2 = "STRUCT_FIELD")
            => LET j == StructNameBefore(k)
                   field == e_call.typed_data.types[e_wire[j].data][k - j]
               IN  EndsWith(field.type, <<93>>) => e_wire[k].data[1] \div 128 = 1

\* C36: when the signing exchange is made for a primary type with a field of a
\* struct type, the implementation of the primary type was sent with an empty
\* value for that field, and the implementation of the struct of the field
\* was opened after it
C36_NestedStructSent ==
    (/\ e_call.fn = "sign_eip712_typed_data"
     /\ e_wire # <<>>
     /\ e_wire[Len(e_wire)].ins = "SIGN_ETH_EIP712")
    => LET fields == e_call.typed_data.types[e_call.typed_data.primary_type]
       IN  \A i \in 1..Len(fields) :
              fields[i].type \in DOMAIN e_call.typed_data.types =>
                  \E p, n \in 1..Len(e_wire) :
                      /\ p < n
                      /\ OpensImplementation(p, e_call.typed_data.primary_type)
                      /\ e_wire[p + i].data = <<0, 0>>
                      /\ OpensImplementation(n, fields[i].type)

============================================================================
